---- MODULE Spec2Model ----
(***************************************************************************)
(* The CertificateSet controller (PRO-Robotech/certificate-set): one       *)
(* reconcile attempt of CertificateSetReconciler.Reconcile is one atomic   *)
(* action over the resource store (CertificateSet parents, cert-manager    *)
(* Certificates and Issuers, Secrets, the beget-argocd namespace).  The    *)
(* users of the API and the cert-manager backend are further actions.      *)
(***************************************************************************)
EXTENDS Naturals, FiniteSets, Sequences, TLC

\* ------------------------------------------------------------- bounds
\* metadata.generation stops growing here: bounds the number of spec changes
MaxGeneration == 3
\* number of distinct credential bundles the backend may issue (rotation)
MaxBundle == 2
\* number of disturbances in a behaviour: failing store calls, a Certificate
\* turning not ready, a Secret lacking a key, a rotation, a namespace deletion,
\* a finalizer of another controller, a change of spec.issuerRef
MaxDisturbances == 1

\* ---------------------------------------------------------- constants
ConditionTypeReady == "Ready"
ConditionTypeProgressing == "Progressing"
ConditionTypeDegraded == "Degraded"
CondTypes == {ConditionTypeReady, ConditionTypeProgressing, ConditionTypeDegraded}

finalizerName == "certificateset.in-cloud.io/cleanup"
ArgoCDNamespace == "beget-argocd"
\* defaultRequeueAfter = 5 * time.Second
defaultRequeueAfter == 5

suffixCA == "-ca"
suffixSuperAdmin == "-super-admin"
suffixETCD == "-etcd"
suffixProxy == "-proxy"
suffixCAOIDC == "-ca-oidc"
suffixKubeconfig == "-kubeconfig"
suffixArgoCDCluster == "-argocd-cluster"

EnvironmentClient == "client"
EnvironmentSystem == "system"
EnvironmentInfra == "infra"

\* The parent identities (namespace, name) of the model: two CertificateSets
\* of the same name in two namespaces.
P1 == [ns |-> "ns1", name |-> "a"]
P2 == [ns |-> "ns2", name |-> "a"]
Parents == {P1, P2}

\* The values spec.issuerRef.name takes.
IssuerNames == {"i1", "i2"}
IssuerReference(n) == [apiVersion |-> "cert-manager.io/v1", kind |-> "ClusterIssuer", name |-> n]
OidcReference == [apiVersion |-> "cert-manager.io/v1", kind |-> "ClusterIssuer", name |-> "oidc"]
Endpoint == "https://a.example.com:6443"

\* ---------------------------------------------------------------- names
CAName(c) == c.name \o suffixCA
SuperAdminName(c) == c.name \o suffixSuperAdmin
ETCDName(c) == c.name \o suffixETCD
ProxyName(c) == c.name \o suffixProxy
CAOIDCName(c) == c.name \o suffixCAOIDC
KubeconfigName(c) == c.name \o suffixKubeconfig
ArgoCDClusterName(c) == c.name \o suffixArgoCDCluster

isSystemOrInfra(environment) ==
    environment = EnvironmentSystem \/ environment = EnvironmentInfra

\* needsClientCerts := cs.Spec.Kubeconfig || cs.Spec.ArgocdCluster
\* needsClientCerts that ignores the two flags
needsClientCertsAlways(c) == TRUE

needsClientCerts(c) == c.kubeconfig \/ c.argocd

\* AllCertificateNames, in the order of the slice
AllCertificateNames(c) ==
    <<CAName(c)>>
    \o (IF isSystemOrInfra(c.env) THEN <<ETCDName(c), ProxyName(c), CAOIDCName(c)>> ELSE <<>>)
    \o (IF needsClientCerts(c) THEN <<SuperAdminName(c)>> ELSE <<>>)

\* ------------------------------------------------------- store key sets
Key(ns, name) == <<ns, name>>
CertSuffixes == {suffixCA, suffixETCD, suffixProxy, suffixCAOIDC, suffixSuperAdmin}
CertKeys == {Key(p.ns, p.name \o s) : p \in Parents, s \in CertSuffixes}
IssuerKeys == {Key(p.ns, CAName(p)) : p \in Parents}
SecretKeys ==
    {Key(p.ns, p.name \o s) : p \in Parents, s \in {suffixCA, suffixSuperAdmin, suffixKubeconfig}}
    \cup {Key(ArgoCDNamespace, ArgoCDClusterName(p)) : p \in Parents}

\* The Registration Secret a parent's attempts create, update or delete.
RegistrationKey(c) == Key(ArgoCDNamespace, ArgoCDClusterName(c))

VARIABLES
    cs,        \* parent identity -> the stored CertificateSet (or the absent record)
    certs,     \* the stored cert-manager Certificates: a function on the existing keys
    issuers,   \* the stored cert-manager Issuers: a function on the existing keys
    secrets,   \* the stored Secrets: a function on the existing keys
    nsArgo,    \* whether namespace beget-argocd exists
    targets,   \* parent identity -> Registration Secret keys its attempts have targeted
    spare,     \* the number of disturbances the behaviour may still see
    manager,   \* the selector flags the manager was started with, and whether it runs
    last       \* what the attempt that was the last step did (NoAttempt after any other step)

vars == <<cs, certs, issuers, secrets, nsArgo, targets, spare, manager, last>>

\* ------------------------------------------------------ store functions
Put(f, k, v) == [x \in DOMAIN f \cup {k} |-> IF x = k THEN v ELSE f[x]]
Drop(f, k) == [x \in DOMAIN f \ {k} |-> f[x]]

\* -------------------------------------------------- certificate builders
\* Certificate duration constants, in hours
CertDuration20Years == 175200
CertDuration1Year == 8760

\* schema.ParseGroupVersion(apiVersion).Group on the apiVersions of the model
ParseGroup(apiVersion) ==
    IF apiVersion = "cert-manager.io/v1" THEN "cert-manager.io" ELSE ""

ObjectReference(ref) == [group |-> ParseGroup(ref.apiVersion), kind |-> ref.kind, name |-> ref.name]
NoReference == [group |-> "", kind |-> "", name |-> ""]

buildCACertificateWithName(p, c, name) ==
    [ns |-> p.ns, name |-> name,
     spec |-> [commonName |-> name, duration |-> CertDuration20Years, isCA |-> TRUE,
               issuerRef |-> ObjectReference(c.issuerRef), secretName |-> name]]

buildCACertificate(p, c) == buildCACertificateWithName(p, c, CAName(p))
buildETCDCertificate(p, c) == buildCACertificateWithName(p, c, ETCDName(p))
buildProxyCertificate(p, c) == buildCACertificateWithName(p, c, ProxyName(p))

buildOIDCCertificate(p, c) ==
    LET name == CAOIDCName(p)
        base == [commonName |-> name, duration |-> CertDuration20Years, isCA |-> FALSE,
                 issuerRef |-> NoReference, secretName |-> name]
    IN [ns |-> p.ns, name |-> name,
        spec |-> IF c.env = EnvironmentSystem
                 THEN [base EXCEPT !.isCA = TRUE, !.issuerRef = ObjectReference(c.issuerRef)]
                 ELSE IF c.env = EnvironmentInfra /\ c.issuerRefOidc # {}
                 THEN [base EXCEPT !.isCA = FALSE,
                                   !.issuerRef = ObjectReference(CHOOSE r \in c.issuerRefOidc : TRUE)]
                 ELSE base]

buildIssuer(p, c) ==
    [ns |-> p.ns, name |-> CAName(p), spec |-> [caSecretName |-> CAName(p)]]

buildSuperAdminCertificate(p, c, issuerName) ==
    LET name == SuperAdminName(p)
    IN [ns |-> p.ns, name |-> name,
        spec |-> [commonName |-> name, duration |-> CertDuration1Year, isCA |-> FALSE,
                  issuerRef |-> [group |-> "cert-manager.io", kind |-> "Issuer", name |-> issuerName],
                  secretName |-> name]]

\* ------------------------------------------------------ secret builders
BundleKeys == {"ca.crt", "tls.crt", "tls.key"}

\* base64.StdEncoding.EncodeToString(secret.Data[k]); a missing key reads as empty
Base64(data, k) == [b64 |-> IF k \in DOMAIN data THEN data[k] ELSE <<>>]

\* getCertificateData: the CertificateData of a Secret's data
CertificateData(data) ==
    [CACert |-> Base64(data, "ca.crt"), TLSCert |-> Base64(data, "tls.crt"),
     TLSKey |-> Base64(data, "tls.key")]

buildKubeconfigSecret(p, c, certData) ==
    [ns |-> p.ns, name |-> KubeconfigName(p), owner |-> {}, type |-> "Opaque",
     labels |-> {},
     data |-> [k \in {"value"} |->
                 [template |-> "kubeconfig", ClusterName |-> p.name, Server |-> c.endpoint,
                  CACert |-> certData.CACert, TLSCert |-> certData.TLSCert,
                  TLSKey |-> certData.TLSKey]]]

buildArgoCDClusterSecret(p, c, certData) ==
    [ns |-> ArgoCDNamespace, name |-> ArgoCDClusterName(p), owner |-> {}, type |-> "Opaque",
     labels |-> {"argocd.argoproj.io/secret-type=cluster"},
     data |-> [k \in {"config", "name", "server"} |->
                 IF k = "config"
                 THEN [template |-> "argocd", CACert |-> certData.CACert,
                       TLSCert |-> certData.TLSCert, TLSKey |-> certData.TLSKey]
                 ELSE IF k = "name" THEN [text |-> p.name] ELSE [text |-> c.endpoint]]]


\* ------------------------------------------------------------ attempts
\* The store calls of an attempt that an injected fault can make fail.
Faults(p) ==
    {"none", "getParent", "updateParent", "getCASecret", "issuer", "getSASecret",
     "certData", "kubeconfigSecret", "getNamespace", "argocdSecret",
     "deleteGet", "deleteDelete", "deleteGone", "readyIssuer"}
    \cup {"cert:" \o p.name \o s : s \in CertSuffixes}
    \cup {"ready:" \o p.name \o s : s \in CertSuffixes}

Op(verb, kind, key) == [verb |-> verb, kind |-> kind, key |-> key]

\* The state of an attempt on parent p: the object it read (c, mutated in
\* memory), the snapshot csOriginal (orig), the store as the attempt leaves it,
\* and the record of what the attempt did.
\* Another writer of the status subresource: it adds a condition of its own
\* type to the stored parent
ForeignConditionType == "Paused"
OtherWriter(c) ==
    [c EXCEPT !.conds = Put(@, ForeignConditionType,
                            [status |-> "True", reason |-> "Manual", message |-> "",
                             observedGeneration |-> c.generation])]

\* c is the parent as the attempt read it, orig the snapshot it patches
\* against, stored the parent as the store holds it: under "otherWriter" the
\* other writer's status write lands right after the attempt's read
StartAttempt(p, fault, patchFails) ==
    [p |-> p, fault |-> fault, patchFails |-> patchFails,
     c |-> cs[p], orig |-> cs[p],
     stored |-> IF fault = "otherWriter" THEN OtherWriter(cs[p]) ELSE cs[p],
     certs |-> certs, issuers |-> issuers, secrets |-> secrets,
     ok |-> TRUE, faultHit |-> fault = "otherWriter", patchHit |-> FALSE, ops |-> {}, reg |-> {}, setConds |-> {}, changed |-> FALSE,
     statusCalls |-> 0, patched |-> FALSE,
     found |-> "unchecked", bundle |-> {}, message |-> "",
     exit |-> "run", err |-> FALSE, requeue |-> "none"]

Failed(a) == [a EXCEPT !.ok = FALSE]
\* the store call the injected fault names fails
Faulted(a) == [a EXCEPT !.ok = FALSE, !.faultHit = TRUE]
\* return with an error and a timed re-invocation request together
ReturnErrorWithRequeue(a, exit) == [a EXCEPT !.exit = exit, !.err = TRUE, !.requeue = "after5s"]
ReturnError(a, exit) == [a EXCEPT !.exit = exit, !.err = TRUE]
ReturnDone(a, exit) == [a EXCEPT !.exit = exit]
ReturnRequeue(a, exit) == [a EXCEPT !.exit = exit, !.requeue = "immediate"]
ReturnRequeueAfter(a, exit) == [a EXCEPT !.exit = exit, !.requeue = "after5s"]

\* setCondition: no change when status, reason, message and observedGeneration match
\* setCondition that keeps the observed generation of a condition it overwrites
setConditionKeepingGeneration(a, condType, status, reason, message) ==
    LET conds == a.c.conds
        same == /\ condType \in DOMAIN conds
                /\ conds[condType].status = status
                /\ conds[condType].reason = reason
                /\ conds[condType].message = message
                /\ conds[condType].observedGeneration = a.c.generation
        new == [status |-> status, reason |-> reason, message |-> message,
                observedGeneration |-> IF condType \in DOMAIN conds
                                       THEN conds[condType].observedGeneration
                                       ELSE a.c.generation]
    IN IF same
       THEN [a EXCEPT !.setConds = @ \cup {condType}]
       ELSE [a EXCEPT !.c.conds = Put(conds, condType, new),
                      !.setConds = @ \cup {condType}, !.changed = TRUE]

\* setCondition whose no-change test leaves the observed generation out
setConditionIgnoringGeneration(a, condType, status, reason, message) ==
    LET conds == a.c.conds
        same == /\ condType \in DOMAIN conds
                /\ conds[condType].status = status
                /\ conds[condType].reason = reason
                /\ conds[condType].message = message
        new == [status |-> status, reason |-> reason, message |-> message,
                observedGeneration |-> a.c.generation]
    IN IF same
       THEN [a EXCEPT !.setConds = @ \cup {condType}]
       ELSE [a EXCEPT !.c.conds = Put(conds, condType, new),
                      !.setConds = @ \cup {condType}, !.changed = TRUE]

setCondition(a, condType, status, reason, message) ==
    LET conds == a.c.conds
        same == /\ condType \in DOMAIN conds
                /\ conds[condType].status = status
                /\ conds[condType].reason = reason
                /\ conds[condType].message = message
                /\ conds[condType].observedGeneration = a.c.generation
        new == [status |-> status, reason |-> reason, message |-> message,
                observedGeneration |-> a.c.generation]
    IN IF same
       THEN [a EXCEPT !.setConds = @ \cup {condType}]
       ELSE [a EXCEPT !.c.conds = Put(conds, condType, new),
                      !.setConds = @ \cup {condType}, !.changed = TRUE]

\* patchStatus: Status().Patch(cs, client.MergeFrom(original)): the call is always
\* issued; a merge patch carries the conditions list whole when it differs from
\* the snapshot's, and nothing when it does not.
patchStatus(a) ==
    IF a.patchFails
    THEN [a EXCEPT !.statusCalls = @ + 1, !.patchHit = TRUE]
    ELSE [a EXCEPT !.statusCalls = @ + 1, !.patched = TRUE,
                   !.stored.conds = IF a.c.conds = a.orig.conds THEN @ ELSE a.c.conds]

\* create-if-absent on a Certificate: an existing one is left as it is
createCertificateIfAbsent(a, desired) ==
    LET key == Key(desired.ns, desired.name)
    IN IF a.fault = "cert:" \o desired.name THEN Faulted(a)
       ELSE IF key \in DOMAIN a.certs THEN a
       ELSE [a EXCEPT !.certs = Put(@, key, [spec |-> desired.spec, owner |-> {a.p}, ready |-> "None"]),
                      !.ops = @ \cup {Op("create", "Certificate", key)}]

\* controllerutil.CreateOrUpdate on a Certificate: create when absent, else
\* set the owner reference and the spec and update when that changed it
\* (under "exists:..." the object is absent at the lookup and another creator
\* puts it in the store before the create, which fails with AlreadyExists; the
\* error is returned like any other)
createOrUpdateCertificate(a, desired) ==
    LET key == Key(desired.ns, desired.name)
    IN IF a.fault = "cert:" \o desired.name THEN Faulted(a)
       ELSE IF key \notin DOMAIN a.certs
       THEN IF a.fault = "exists:cert:" \o desired.name
            THEN [a EXCEPT !.ok = FALSE, !.faultHit = TRUE, !.certs = Put(@, key, [spec |-> desired.spec, owner |-> {a.p}, ready |-> "None"])]
            ELSE [a EXCEPT !.certs = Put(@, key, [spec |-> desired.spec, owner |-> {a.p}, ready |-> "None"]),
                           !.ops = @ \cup {Op("create", "Certificate", key)}]
       ELSE LET existing == a.certs[key]
                mutated == [existing EXCEPT !.owner = {a.p}, !.spec = desired.spec]
            IN IF existing.owner \notin {{}, {a.p}} THEN Failed(a)
               ELSE IF mutated = existing THEN a
               ELSE [a EXCEPT !.certs = Put(@, key, mutated),
                              !.ops = @ \cup {Op("update", "Certificate", key)}]

\* CreateOrUpdate on the Issuer whose create carries no owner reference
createOrUpdateIssuerWithoutOwner(a, desired) ==
    LET key == Key(desired.ns, desired.name)
    IN IF a.fault = "issuer" THEN Faulted(a)
       ELSE IF key \notin DOMAIN a.issuers
       THEN IF a.fault = "exists:issuer"
            THEN [a EXCEPT !.ok = FALSE, !.faultHit = TRUE, !.issuers = Put(@, key, [spec |-> desired.spec, owner |-> {a.p}, ready |-> "None"])]
            ELSE [a EXCEPT !.issuers = Put(@, key, [spec |-> desired.spec, owner |-> {}, ready |-> "None"]),
                           !.ops = @ \cup {Op("create", "Issuer", key)}]
       ELSE LET existing == a.issuers[key]
                mutated == [existing EXCEPT !.owner = {a.p}, !.spec = desired.spec]
            IN IF existing.owner \notin {{}, {a.p}} THEN Failed(a)
               ELSE IF mutated = existing THEN a
               ELSE [a EXCEPT !.issuers = Put(@, key, mutated),
                              !.ops = @ \cup {Op("update", "Issuer", key)}]

createOrUpdateIssuer(a, desired) ==
    LET key == Key(desired.ns, desired.name)
    IN IF a.fault = "issuer" THEN Faulted(a)
       ELSE IF key \notin DOMAIN a.issuers
       THEN IF a.fault = "exists:issuer"
            THEN [a EXCEPT !.ok = FALSE, !.faultHit = TRUE, !.issuers = Put(@, key, [spec |-> desired.spec, owner |-> {a.p}, ready |-> "None"])]
            ELSE [a EXCEPT !.issuers = Put(@, key, [spec |-> desired.spec, owner |-> {a.p}, ready |-> "None"]),
                           !.ops = @ \cup {Op("create", "Issuer", key)}]
       ELSE LET existing == a.issuers[key]
                mutated == [existing EXCEPT !.owner = {a.p}, !.spec = desired.spec]
            IN IF existing.owner \notin {{}, {a.p}} THEN Failed(a)
               ELSE IF mutated = existing THEN a
               ELSE [a EXCEPT !.issuers = Put(@, key, mutated),
                              !.ops = @ \cup {Op("update", "Issuer", key)}]

\* secretDataEqualForKeys that compares which keys are there, not their bytes
secretDataEqualForKeysByPresence(existing, new, keys) ==
    \A k \in keys : (k \in DOMAIN existing) = (k \in DOMAIN new)

\* secretDataEqualForKeys
secretDataEqualForKeys(existing, new, keys) ==
    \A k \in keys :
        /\ (k \in DOMAIN existing) = (k \in DOMAIN new)
        /\ (k \in DOMAIN existing => existing[k] = new[k])

\* createOrUpdateSecret that writes the whole desired Secret over an existing one
createOrUpdateSecretReplacing(a, secret, managedKeys, label) ==
    LET key == Key(secret.ns, secret.name)
        obj == [data |-> secret.data, owner |-> secret.owner, labels |-> secret.labels]
    IN IF a.fault = label THEN Faulted(a)
       ELSE IF key \notin DOMAIN a.secrets
       THEN IF a.fault = "exists:" \o label
            THEN [a EXCEPT !.ok = FALSE, !.faultHit = TRUE, !.secrets = Put(@, key, obj)]
            ELSE [a EXCEPT !.secrets = Put(@, key, obj),
                           !.ops = @ \cup {Op("create", "Secret", key)}]
       ELSE LET existing == a.secrets[key]
                merged == [k \in DOMAIN existing.data \cup managedKeys |->
                             IF k \in managedKeys THEN secret.data[k] ELSE existing.data[k]]
            IN IF secretDataEqualForKeys(existing.data, secret.data, managedKeys) THEN a
               ELSE [a EXCEPT !.secrets = Put(@, key, obj),
                              !.ops = @ \cup {Op("update", "Secret", key)}]

\* createOrUpdateSecret: create when absent, else overwrite the managed keys
\* when one of them differs
createOrUpdateSecret(a, secret, managedKeys, label) ==
    LET key == Key(secret.ns, secret.name)
        obj == [data |-> secret.data, owner |-> secret.owner, labels |-> secret.labels]
    IN IF a.fault = label THEN Faulted(a)
       ELSE IF key \notin DOMAIN a.secrets
       THEN IF a.fault = "exists:" \o label
            THEN [a EXCEPT !.ok = FALSE, !.faultHit = TRUE, !.secrets = Put(@, key, obj)]
            ELSE [a EXCEPT !.secrets = Put(@, key, obj),
                           !.ops = @ \cup {Op("create", "Secret", key)}]
       ELSE LET existing == a.secrets[key]
                merged == [k \in DOMAIN existing.data \cup managedKeys |->
                             IF k \in managedKeys THEN secret.data[k] ELSE existing.data[k]]
            IN IF secretDataEqualForKeys(existing.data, secret.data, managedKeys) THEN a
               ELSE [a EXCEPT !.secrets = Put(@, key, [existing EXCEPT !.data = merged]),
                              !.ops = @ \cup {Op("update", "Secret", key)}]

\* deleteSecretIfExists that logs a failing lookup or delete and reports success
deleteSecretSwallowingErrors(a, key) ==
    IF a.fault = "deleteGet" THEN [a EXCEPT !.faultHit = TRUE]
    ELSE IF key \notin DOMAIN a.secrets THEN a
    ELSE IF a.fault = "deleteDelete" THEN [a EXCEPT !.faultHit = TRUE]
    ELSE IF a.fault = "deleteGone" THEN [a EXCEPT !.secrets = Drop(@, key), !.faultHit = TRUE]
    ELSE [a EXCEPT !.secrets = Drop(@, key),
                   !.ops = @ \cup {Op("delete", "Secret", key)}]

\* deleteSecretIfExists that reports a Secret it does not find as a failure
deleteSecretStrict(a, key) ==
    IF a.fault = "deleteGet" THEN Faulted(a)
    ELSE IF key \notin DOMAIN a.secrets THEN Failed(a)
    ELSE IF a.fault = "deleteDelete" THEN Faulted(a)
    ELSE IF a.fault = "deleteGone" THEN [Failed(a) EXCEPT !.secrets = Drop(@, key), !.faultHit = TRUE]
    ELSE [a EXCEPT !.secrets = Drop(@, key),
                   !.ops = @ \cup {Op("delete", "Secret", key)}]

\* deleteSecretIfExists: not-found on the lookup or on the delete is success
deleteSecretIfExists(a, key) ==
    IF a.fault = "deleteGet" THEN Faulted(a)
    ELSE IF key \notin DOMAIN a.secrets THEN a
    ELSE IF a.fault = "deleteDelete" THEN Faulted(a)
    \* the Secret went away between the lookup and the delete: Delete answers not-found
    ELSE IF a.fault = "deleteGone" THEN [a EXCEPT !.secrets = Drop(@, key), !.faultHit = TRUE]
    ELSE [a EXCEPT !.secrets = Drop(@, key),
                   !.ops = @ \cup {Op("delete", "Secret", key)}]


\* --------------------------------------------------- readiness oracle
\* isSecretReady that asks only for the key pair
isSecretReadyWithoutCA(store, key) ==
    /\ key \in DOMAIN store
    /\ "tls.crt" \in DOMAIN store[key].data
    /\ "tls.key" \in DOMAIN store[key].data

\* isSecretReady that asks only for the Secret to exist
isSecretPresent(store, key) == key \in DOMAIN store

isSecretReady(store, key) ==
    /\ key \in DOMAIN store
    /\ "ca.crt" \in DOMAIN store[key].data
    /\ "tls.crt" \in DOMAIN store[key].data
    /\ "tls.key" \in DOMAIN store[key].data

\* isCertificateReady / isIssuerReady: the object exists and its condition of
\* type Ready has status True ("None": the object carries no Ready condition)
\* isCertificateReady that takes everything but Ready=False for ready
isCertificateReadyUnlessFalse(store, key) == key \in DOMAIN store /\ store[key].ready # "False"

isCertificateReady(store, key) == key \in DOMAIN store /\ store[key].ready = "True"
isIssuerReady(store, key) == key \in DOMAIN store /\ store[key].ready = "True"

Readiness(allReady, reason, err) == [allReady |-> allReady, reason |-> reason, err |-> err]

\* checkCertificates that reports the last Certificate that is not ready
RECURSIVE checkCertificatesLastFirst(_, _, _)
checkCertificatesLastFirst(a, names, i) ==
    IF i > Len(names) THEN Readiness(TRUE, "", FALSE)
    ELSE LET rest == checkCertificatesLastFirst(a, names, i + 1)
         IN IF ~rest.allReady THEN rest
            ELSE IF a.fault = "ready:" \o names[i]
            THEN Readiness(FALSE, "error checking Certificate " \o names[i], TRUE)
            ELSE IF ~isCertificateReady(a.certs, Key(a.c.ns, names[i]))
            THEN Readiness(FALSE, "Certificate " \o names[i] \o " is not ready", FALSE)
            ELSE rest

RECURSIVE checkCertificates(_, _, _)
checkCertificates(a, names, i) ==
    IF i > Len(names) THEN Readiness(TRUE, "", FALSE)
    ELSE IF a.fault = "ready:" \o names[i]
    THEN Readiness(FALSE, "error checking Certificate " \o names[i], TRUE)
    ELSE IF ~isCertificateReady(a.certs, Key(a.c.ns, names[i]))
    THEN Readiness(FALSE, "Certificate " \o names[i] \o " is not ready", FALSE)
    ELSE checkCertificates(a, names, i + 1)

\* checkAllResourcesReady without its second step: the Issuer is not looked at
checkAllResourcesReadyWithoutIssuer(a) ==
    checkCertificates(a, AllCertificateNames(a.c), 1)

\* checkAllResourcesReady that looks at the Issuer before the Certificates
checkAllResourcesReadyIssuerFirst(a) ==
    LET certsReady == checkCertificates(a, AllCertificateNames(a.c), 1)
        issuerName == CAName(a.c)
    IN IF needsClientCerts(a.c) /\ a.fault = "readyIssuer"
       THEN Readiness(FALSE, "error checking Issuer " \o issuerName, TRUE)
       ELSE IF needsClientCerts(a.c) /\ ~isIssuerReady(a.issuers, Key(a.c.ns, issuerName))
       THEN Readiness(FALSE, "Issuer " \o issuerName \o " is not ready", FALSE)
       ELSE certsReady

checkAllResourcesReady(a) ==
    LET certsReady == checkCertificates(a, AllCertificateNames(a.c), 1)
        issuerName == CAName(a.c)
    IN IF ~certsReady.allReady THEN certsReady
       ELSE IF ~needsClientCerts(a.c) THEN Readiness(TRUE, "", FALSE)
       ELSE IF a.fault = "readyIssuer"
       THEN Readiness(FALSE, "error checking Issuer " \o issuerName, TRUE)
       ELSE IF ~isIssuerReady(a.issuers, Key(a.c.ns, issuerName))
       THEN Readiness(FALSE, "Issuer " \o issuerName \o " is not ready", FALSE)
       ELSE Readiness(TRUE, "", FALSE)

\* ------------------------------------------------------------- phases
reconcileCACertificates(a) ==
    LET a1 == createOrUpdateCertificate(a, buildCACertificate(a.p, a.c))
        a2 == createOrUpdateCertificate(a1, buildETCDCertificate(a.p, a.c))
        a3 == createOrUpdateCertificate(a2, buildProxyCertificate(a.p, a.c))
        a4 == createOrUpdateCertificate(a3, buildOIDCCertificate(a.p, a.c))
    IN IF ~a1.ok THEN [a1 EXCEPT !.message = "failed to create CA Certificate"]
       ELSE IF ~isSystemOrInfra(a.c.env) THEN a1
       ELSE IF ~a2.ok THEN [a2 EXCEPT !.message = "failed to create ETCD Certificate"]
       ELSE IF ~a3.ok THEN [a3 EXCEPT !.message = "failed to create Proxy Certificate"]
       ELSE IF ~a4.ok THEN [a4 EXCEPT !.message = "failed to create OIDC Certificate"]
       ELSE a4

\* reconcileClientCertificates that writes the super-admin Certificate ahead of the Issuer
reconcileClientCertificatesCertificateFirst(a) ==
    LET issuer == buildIssuer(a.p, a.c)
        a1 == createOrUpdateCertificate(a, buildSuperAdminCertificate(a.p, a.c, issuer.name))
        a2 == createOrUpdateIssuer(a1, issuer)
    IN IF ~a1.ok THEN [a1 EXCEPT !.message = "failed to create super-admin Certificate"]
       ELSE IF ~a2.ok THEN [a2 EXCEPT !.message = "failed to create Issuer"]
       ELSE a2

reconcileClientCertificates(a) ==
    LET issuer == buildIssuer(a.p, a.c)
        a1 == createOrUpdateIssuer(a, issuer)
        a2 == createOrUpdateCertificate(a1, buildSuperAdminCertificate(a.p, a.c, issuer.name))
    IN IF ~a1.ok THEN [a1 EXCEPT !.message = "failed to create Issuer"]
       ELSE IF ~a2.ok THEN [a2 EXCEPT !.message = "failed to create super-admin Certificate"]
       ELSE a2

\* reconcileDerivedSecrets that writes the Registration Secret without looking
\* for its namespace
reconcileDerivedSecretsWithoutNamespace(a, certData) ==
    LET kubeconfigSecret == [buildKubeconfigSecret(a.p, a.c, certData) EXCEPT !.owner = {a.p}]
        a1 == IF a.c.kubeconfig
              THEN createOrUpdateSecret(a, kubeconfigSecret, {"value"}, "kubeconfigSecret")
              ELSE a
        a2 == [a1 EXCEPT !.reg = @ \cup {RegistrationKey(a.c)}]
        a3 == createOrUpdateSecret(a2, buildArgoCDClusterSecret(a.p, a.c, certData),
                                   {"config", "name", "server"}, "argocdSecret")
    IN IF ~a1.ok THEN [a1 EXCEPT !.message = "failed to create kubeconfig Secret"]
       ELSE IF ~a.c.argocd THEN a1
       ELSE IF ~a3.ok THEN [a3 EXCEPT !.message = "failed to create ArgoCD cluster Secret"]
       ELSE a3

reconcileDerivedSecrets(a, certData) ==
    LET kubeconfigSecret == [buildKubeconfigSecret(a.p, a.c, certData) EXCEPT !.owner = {a.p}]
        a1 == IF a.c.kubeconfig
              THEN createOrUpdateSecret(a, kubeconfigSecret, {"value"}, "kubeconfigSecret")
              ELSE a
        a2 == [a1 EXCEPT !.reg = @ \cup {RegistrationKey(a.c)}]
        a3 == createOrUpdateSecret(a2, buildArgoCDClusterSecret(a.p, a.c, certData),
                                   {"config", "name", "server"}, "argocdSecret")
    IN IF ~a1.ok THEN [a1 EXCEPT !.message = "failed to create kubeconfig Secret"]
       ELSE IF ~a.c.argocd THEN a1
       ELSE IF a.fault = "getNamespace"
       THEN [Faulted(a1) EXCEPT !.message = "failed to check ArgoCD namespace"]
       ELSE IF ~nsArgo
       THEN [Failed(a1) EXCEPT !.message = "ArgoCD namespace does not exist"]
       ELSE IF ~a3.ok THEN [a3 EXCEPT !.message = "failed to create ArgoCD cluster Secret"]
       ELSE a3


\* ------------------------------------------------------------ Reconcile
\* The object with no finalizer left and a deletion timestamp is gone.
AbsentParent(p) ==
    [ns |-> p.ns, name |-> p.name, phase |-> "absent", env |-> EnvironmentClient,
     kubeconfig |-> FALSE, argocd |-> FALSE, issuerRef |-> IssuerReference("i1"),
     issuerRefOidc |-> {}, endpoint |-> "", generation |-> 1,
     finalizer |-> FALSE, foreign |-> FALSE, conds |-> <<>>]

\* r.Update(ctx, cs) of the parent: metadata (the finalizers) is written; an object
\* under deletion whose last finalizer goes is removed
UpdateParent(a) ==
    LET written == [a.stored EXCEPT !.finalizer = a.c.finalizer]
    IN IF a.fault = "updateParent" THEN Faulted(a)
       ELSE IF a.stored # a.orig THEN Failed(a)
       ELSE [a EXCEPT !.stored = IF written.phase = "deleting" /\ ~written.finalizer /\ ~written.foreign
                                 THEN AbsentParent(a.p) ELSE written,
                      !.ops = @ \cup {Op("update", "CertificateSet", Key(a.p.ns, a.p.name))}]

\* reconcileDelete that removes the finalizer whatever the cleanup returned
reconcileDeleteUnguarded(a) ==
    LET a1 == deleteSecretIfExists([a EXCEPT !.reg = @ \cup {RegistrationKey(a.c)}],
                                   RegistrationKey(a.c))
        a2 == UpdateParent([a1 EXCEPT !.c.finalizer = FALSE, !.ok = TRUE])
    IN IF ~a2.ok THEN ReturnError(a2, "deleteUpdateErr")
       ELSE IF ~a1.ok THEN ReturnError(a2, "deleteSecretErr")
       ELSE ReturnDone(a2, "deleted")

reconcileDelete(a) ==
    LET a1 == deleteSecretIfExists([a EXCEPT !.reg = @ \cup {RegistrationKey(a.c)}],
                                   RegistrationKey(a.c))
        a2 == UpdateParent([a1 EXCEPT !.c.finalizer = FALSE])
    IN IF ~a1.ok THEN ReturnError(a1, "deleteSecretErr")
       ELSE IF ~a2.ok THEN ReturnError(a2, "deleteUpdateErr")
       ELSE ReturnDone(a2, "deleted")

\* Steps 6 and 7: readiness aggregation and the terminal conditions
\* Steps 6 and 7 with a step 7 that leaves the Progressing condition as it was
ReconcileReadinessKeepingProgressing(a) ==
    LET r == checkAllResourcesReady(a)
        failed == patchStatus(
            setCondition(
                setCondition(a, ConditionTypeReady, "False", "CheckFailed", r.reason),
                ConditionTypeDegraded, "True", "Error", r.reason))
        waiting == patchStatus(
            setCondition(
                setCondition(
                    setCondition(a, ConditionTypeReady, "False", "WaitingForResources", r.reason),
                    ConditionTypeProgressing, "True", "ResourcesPending", r.reason),
                ConditionTypeDegraded, "False", "Healthy", "No errors"))
        complete == patchStatus(
            setCondition(
                setCondition(a, ConditionTypeReady, "True", "AllResourcesReady",
                             "All certificate resources created and ready"),
                ConditionTypeDegraded, "False", "Healthy", "No errors"))
    IN IF r.err THEN ReturnError([failed EXCEPT !.found = "error", !.faultHit = TRUE], "checkErr")
       ELSE IF ~r.allReady
       THEN IF ~waiting.patched
            THEN ReturnError([waiting EXCEPT !.found = "notReady"], "waitingPatchErr")
            ELSE ReturnRequeueAfter([waiting EXCEPT !.found = "notReady"], "waiting")
       ELSE IF ~complete.patched
       THEN ReturnError([complete EXCEPT !.found = "allReady"], "completePatchErr")
       ELSE ReturnDone([complete EXCEPT !.found = "allReady"], "complete")

ReconcileReadiness(a) ==
    LET r == checkAllResourcesReady(a)
        failed == patchStatus(
            setCondition(
                setCondition(a, ConditionTypeReady, "False", "CheckFailed", r.reason),
                ConditionTypeDegraded, "True", "Error", r.reason))
        waiting == patchStatus(
            setCondition(
                setCondition(
                    setCondition(a, ConditionTypeReady, "False", "WaitingForResources", r.reason),
                    ConditionTypeProgressing, "True", "ResourcesPending", r.reason),
                ConditionTypeDegraded, "False", "Healthy", "No errors"))
        complete == patchStatus(
            setCondition(
                setCondition(
                    setCondition(a, ConditionTypeReady, "True", "AllResourcesReady",
                                 "All certificate resources created and ready"),
                    ConditionTypeDegraded, "False", "Healthy", "No errors"),
                ConditionTypeProgressing, "False", "Complete", "Reconciliation complete"))
    IN IF r.err THEN ReturnError([failed EXCEPT !.found = "error", !.faultHit = TRUE], "checkErr")
       ELSE IF ~r.allReady
       THEN IF ~waiting.patched
            THEN ReturnError([waiting EXCEPT !.found = "notReady"], "waitingPatchErr")
            ELSE ReturnRequeueAfter([waiting EXCEPT !.found = "notReady"], "waiting")
       ELSE IF ~complete.patched
       THEN ReturnError([complete EXCEPT !.found = "allReady"], "completePatchErr")
       ELSE ReturnDone([complete EXCEPT !.found = "allReady"], "complete")

\* Reconcile without the drift cleanup: readiness follows Phase C at once
ReconcileWithoutCleanup(a) == ReconcileReadiness(a)

\* The drift cleanup of the Registration Secret, then steps 6 and 7
\* Drift cleanup that goes on to the readiness check when the delete fails
ReconcileCleanupIgnoringErrors(a) ==
    LET a1 == deleteSecretIfExists([a EXCEPT !.reg = @ \cup {RegistrationKey(a.c)}],
                                   RegistrationKey(a.c))
    IN IF a.c.argocd THEN ReconcileReadiness(a)
       ELSE ReconcileReadiness(a1)

ReconcileCleanup(a) ==
    LET a1 == deleteSecretIfExists([a EXCEPT !.reg = @ \cup {RegistrationKey(a.c)}],
                                   RegistrationKey(a.c))
    IN IF a.c.argocd THEN ReconcileReadiness(a)
       ELSE IF ~a1.ok
       THEN ReturnError(patchStatus(setCondition(a1, ConditionTypeDegraded, "True",
                                                 "ArgoCDCleanupFailed", "delete failed")),
                        "cleanupErr")
       ELSE ReconcileReadiness(a1)

\* Reconcile steps 3 to 5 that return the error of the status patch, when it
\* fails, in place of the error of the phase
ReconcileClientReturningPatchError(a) ==
    LET a1 == reconcileClientCertificates(a)
        saKey == Key(a.c.ns, SuperAdminName(a.c))
        certData == CertificateData(a1.secrets[saKey].data)
        a2 == reconcileDerivedSecrets([a1 EXCEPT !.bundle = {certData}], certData)
        failedB == patchStatus(setCondition(a1, ConditionTypeDegraded, "True",
                                            "ClientCertificatesFailed", a1.message))
        failedC == patchStatus(setCondition(a2, ConditionTypeDegraded, "True",
                                            "DerivedSecretsFailed", a2.message))
    IN IF ~needsClientCerts(a.c) THEN ReconcileCleanup(a)
       ELSE IF ~a1.ok
       THEN ReturnError(failedB, IF failedB.patched THEN "phaseBErr" ELSE "statusPatchErr")
       ELSE IF a.fault = "getSASecret" THEN ReturnError(Faulted(a1), "gateBErr")
       ELSE IF ~isSecretReady(a1.secrets, saKey) THEN ReturnRequeueAfter(a1, "gateBWait")
       ELSE IF a.fault = "certData" THEN ReturnError(Faulted(a1), "certDataErr")
       ELSE IF ~a2.ok
       THEN ReturnError(failedC, IF failedC.patched THEN "phaseCErr" ELSE "statusPatchErr")
       ELSE ReconcileCleanup(a2)

\* Steps 3 to 5: client certificates, the super-admin Secret, derived secrets
ReconcileClient(a) ==
    LET a1 == reconcileClientCertificates(a)
        saKey == Key(a.c.ns, SuperAdminName(a.c))
        certData == CertificateData(a1.secrets[saKey].data)
        a2 == reconcileDerivedSecrets([a1 EXCEPT !.bundle = {certData}], certData)
    IN IF ~needsClientCerts(a.c) THEN ReconcileCleanup(a)
       ELSE IF ~a1.ok
       THEN ReturnError(patchStatus(setCondition(a1, ConditionTypeDegraded, "True",
                                                 "ClientCertificatesFailed", a1.message)),
                        "phaseBErr")
       ELSE IF a.fault = "getSASecret" THEN ReturnError(Faulted(a1), "gateBErr")
       ELSE IF ~isSecretReady(a1.secrets, saKey) THEN ReturnRequeueAfter(a1, "gateBWait")
       ELSE IF a.fault = "certData" THEN ReturnError(Faulted(a1), "certDataErr")
       ELSE IF ~a2.ok
       THEN ReturnError(patchStatus(setCondition(a2, ConditionTypeDegraded, "True",
                                                 "DerivedSecretsFailed", a2.message)),
                        "phaseCErr")
       ELSE ReconcileCleanup(a2)

\* Steps 1 and 2 with a failed CA Secret lookup taken for a Secret not yet there
ReconcileCALookupErrorAsWait(a) ==
    LET a1 == reconcileCACertificates(a)
    IN IF ~a1.ok
       THEN ReturnError(patchStatus(setCondition(a1, ConditionTypeDegraded, "True",
                                                 "CACertificatesFailed", a1.message)),
                        "phaseAErr")
       ELSE IF a.fault = "getCASecret" THEN ReturnRequeueAfter(Faulted(a1), "gateAWait")
       ELSE IF ~isSecretReady(a1.secrets, Key(a.c.ns, CAName(a.c)))
       THEN ReturnRequeueAfter(a1, "gateAWait")
       ELSE ReconcileClient(a1)

\* Reconcile steps 1 and 2 with a Phase A failure that marks the parent not
\* ready as well as degraded
ReconcileCAMarkingNotReady(a) ==
    LET a1 == reconcileCACertificates(a)
    IN IF ~a1.ok
       THEN ReturnError(patchStatus(setCondition(
                            setCondition(a1, ConditionTypeReady, "False",
                                         "CACertificatesFailed", a1.message),
                            ConditionTypeDegraded, "True", "CACertificatesFailed", a1.message)),
                        "phaseAErr")
       ELSE IF a.fault = "getCASecret" THEN ReturnError(Faulted(a1), "gateAErr")
       ELSE IF ~isSecretReady(a1.secrets, Key(a.c.ns, CAName(a.c)))
       THEN ReturnRequeueAfter(a1, "gateAWait")
       ELSE ReconcileClient(a1)

\* Steps 1 and 2: the CA certificates and the CA Secret
ReconcileCA(a) ==
    LET a1 == reconcileCACertificates(a)
    IN IF ~a1.ok
       THEN ReturnError(patchStatus(setCondition(a1, ConditionTypeDegraded, "True",
                                                 "CACertificatesFailed", a1.message)),
                        "phaseAErr")
       ELSE IF a.fault = "getCASecret" THEN ReturnError(Faulted(a1), "gateAErr")
       ELSE IF ~isSecretReady(a1.secrets, Key(a.c.ns, CAName(a.c)))
       THEN ReturnRequeueAfter(a1, "gateAWait")
       ELSE ReconcileClient(a1)

\* Reconcile with the finalizer attach ahead of the deletion branch
ReconcileFinalizerFirst(p, fault, patchFails) ==
    LET a == StartAttempt(p, fault, patchFails)
        withFinalizer == UpdateParent([a EXCEPT !.c.finalizer = TRUE])
    IN IF fault = "getParent" THEN ReturnError(Faulted(a), "getParentErr")
       ELSE IF a.c.phase = "absent" THEN ReturnDone(a, "notFound")
       ELSE IF ~a.c.finalizer
       THEN IF ~withFinalizer.ok THEN ReturnError(withFinalizer, "finalizerErr")
            ELSE ReturnRequeue(withFinalizer, "finalizerAdded")
       ELSE IF a.c.phase = "deleting" THEN reconcileDelete(a)
       ELSE ReconcileCA(a)

\* Reconcile that goes on with the phases in the attempt that attached the finalizer
ReconcileWithoutRequeue(p, fault, patchFails) ==
    LET a == StartAttempt(p, fault, patchFails)
        withFinalizer == UpdateParent([a EXCEPT !.c.finalizer = TRUE])
    IN IF fault = "getParent" THEN ReturnError(Faulted(a), "getParentErr")
       ELSE IF a.c.phase = "absent" THEN ReturnDone(a, "notFound")
       ELSE IF a.c.phase = "deleting" THEN reconcileDelete(a)
       ELSE IF ~a.c.finalizer
       THEN IF ~withFinalizer.ok THEN ReturnError(withFinalizer, "finalizerErr")
            ELSE ReconcileCA(withFinalizer)
       ELSE ReconcileCA(a)

\* Reconcile without the deletion branch: a parent under deletion is
\* reconciled like any other
ReconcileWithoutDeletionBranch(p, fault, patchFails) ==
    LET a == StartAttempt(p, fault, patchFails)
        withFinalizer == UpdateParent([a EXCEPT !.c.finalizer = TRUE])
    IN IF fault = "getParent" THEN ReturnError(Faulted(a), "getParentErr")
       ELSE IF a.c.phase = "absent" THEN ReturnDone(a, "notFound")
       ELSE IF ~a.c.finalizer
       THEN IF ~withFinalizer.ok THEN ReturnError(withFinalizer, "finalizerErr")
            ELSE ReturnRequeue(withFinalizer, "finalizerAdded")
       ELSE ReconcileCA(a)

\* Reconcile that takes the presence of the finalizer for the deletion
\* timestamp
ReconcileDeleteByFinalizer(p, fault, patchFails) ==
    LET a == StartAttempt(p, fault, patchFails)
        withFinalizer == UpdateParent([a EXCEPT !.c.finalizer = TRUE])
    IN IF fault = "getParent" THEN ReturnError(Faulted(a), "getParentErr")
       ELSE IF a.c.phase = "absent" THEN ReturnDone(a, "notFound")
       ELSE IF a.c.finalizer THEN reconcileDelete(a)
       ELSE IF a.c.phase = "live"
       THEN IF ~withFinalizer.ok THEN ReturnError(withFinalizer, "finalizerErr")
            ELSE ReturnRequeue(withFinalizer, "finalizerAdded")
       ELSE ReturnDone(a, "deleted")

\* CertificateSetReconciler.Reconcile: what one attempt on parent p does
ReconcileAttempt(p, fault, patchFails) ==
    LET a == StartAttempt(p, fault, patchFails)
        withFinalizer == UpdateParent([a EXCEPT !.c.finalizer = TRUE])
    IN IF fault = "getParent" THEN ReturnError(Faulted(a), "getParentErr")
       ELSE IF a.c.phase = "absent" THEN ReturnDone(a, "notFound")
       ELSE IF a.c.phase = "deleting" THEN reconcileDelete(a)
       ELSE IF ~a.c.finalizer
       THEN IF ~withFinalizer.ok THEN ReturnError(withFinalizer, "finalizerErr")
            ELSE ReturnRequeue(withFinalizer, "finalizerAdded")
       ELSE ReconcileCA(a)


\* What an attempt did, as the model records it.
Summary(a) ==
    [p |-> {a.p}, exit |-> a.exit, err |-> a.err, requeue |-> a.requeue,
     ops |-> a.ops, reg |-> a.reg,
     set |-> [t \in a.setConds |-> [status |-> a.c.conds[t].status, reason |-> a.c.conds[t].reason,
                                    message |-> a.c.conds[t].message]],
     fault |-> IF a.faultHit THEN a.fault ELSE "none", patchFailed |-> a.patchHit,
     changed |-> a.changed, statusCalls |-> a.statusCalls, patched |-> a.patched,
     found |-> a.found, bundle |-> a.bundle,
     deleting |-> a.c.phase = "deleting", hadFinalizer |-> a.orig.finalizer]

NoAttempt ==
    [p |-> {}, exit |-> "none", err |-> FALSE, requeue |-> "none",
     ops |-> {}, reg |-> {}, set |-> <<>>,
     changed |-> FALSE, statusCalls |-> 0, patched |-> FALSE,
     fault |-> "none", patchFailed |-> FALSE,
     found |-> "unchecked", bundle |-> {},
     deleting |-> FALSE, hadFinalizer |-> FALSE]

\* One reconcile attempt on parent p; the scheduler may start one at any time.
Reconcile(p) ==
    \E fault \in Faults(p), patchFails \in BOOLEAN :
        LET a == ReconcileAttempt(p, fault, patchFails)
            disturbed == fault # "none" \/ patchFails
        IN /\ disturbed => spare > 0
           /\ fault # "none" => a.faultHit
           /\ patchFails => a.patchHit
           /\ spare' = IF disturbed THEN spare - 1 ELSE spare
           /\ cs' = [cs EXCEPT ![p] = a.stored]
           /\ certs' = a.certs
           /\ issuers' = a.issuers
           /\ secrets' = a.secrets
           /\ targets' = [targets EXCEPT ![p] = @ \cup a.reg]
           /\ last' = Summary(a)
           /\ UNCHANGED <<nsArgo, manager>>

\* ------------------------------------------------- users of the API
\* The creates that can lose a race to another creator of the same object
CreateRaces(p) ==
    {"exists:issuer", "exists:kubeconfigSecret", "exists:argocdSecret"}
    \cup {"exists:cert:" \o p.name \o s : s \in CertSuffixes}

\* One reconcile attempt on parent p during which another client of the store
\* acts: another writer writes the status of p, or another creator creates an
\* object between the attempt's lookup of it and the attempt's create
ReconcileRaced(p) ==
    \E fault \in {"otherWriter"} \cup CreateRaces(p) :
        LET a == ReconcileAttempt(p, fault, FALSE)
        IN /\ cs[p].phase # "absent"
           /\ a.faultHit
           /\ cs' = [cs EXCEPT ![p] = a.stored]
           /\ certs' = a.certs
           /\ issuers' = a.issuers
           /\ secrets' = a.secrets
           /\ targets' = [targets EXCEPT ![p] = @ \cup a.reg]
           /\ last' = Summary(a)
           /\ UNCHANGED <<nsArgo, spare, manager>>

\* spec.argocdCluster is mutable; the CRD rule wants kubeconfigEndpoint with it
ToggleArgocd(p) ==
    /\ cs[p].phase = "live"
    /\ cs[p].generation < MaxGeneration
    /\ ~cs[p].argocd => cs[p].endpoint # ""
    /\ cs' = [cs EXCEPT ![p].argocd = ~@, ![p].generation = @ + 1]
    /\ last' = NoAttempt
    /\ UNCHANGED <<certs, issuers, secrets, nsArgo, targets, spare, manager>>

\* spec.issuerRef is mutable
ChangeIssuerRef(p) ==
    /\ cs[p].phase = "live"
    /\ cs[p].generation < MaxGeneration
    /\ spare > 0
    /\ spare' = spare - 1
    /\ \E n \in IssuerNames \ {cs[p].issuerRef.name} :
          cs' = [cs EXCEPT ![p].issuerRef = IssuerReference(n), ![p].generation = @ + 1]
    /\ last' = NoAttempt
    /\ UNCHANGED <<certs, issuers, secrets, nsArgo, targets, manager>>

\* spec.kubeconfigEndpoint can be set once from empty
SetEndpoint(p) ==
    /\ cs[p].phase = "live"
    /\ cs[p].generation < MaxGeneration
    /\ cs[p].endpoint = ""
    /\ cs' = [cs EXCEPT ![p].endpoint = Endpoint, ![p].generation = @ + 1]
    /\ last' = NoAttempt
    /\ UNCHANGED <<certs, issuers, secrets, nsArgo, targets, spare, manager>>

\* A delete of the parent sets the deletion timestamp; with no finalizer the
\* object goes at once
DeleteParent(p) ==
    /\ cs[p].phase = "live"
    /\ cs' = [cs EXCEPT ![p] = IF @.finalizer \/ @.foreign
                                THEN [@ EXCEPT !.phase = "deleting"]
                                ELSE AbsentParent(p)]
    /\ last' = NoAttempt
    /\ UNCHANGED <<certs, issuers, secrets, nsArgo, targets, spare, manager>>

\* Another controller puts its finalizer on the parent
AddForeign(p) ==
    /\ cs[p].phase = "live"
    /\ ~cs[p].foreign
    /\ spare > 0
    /\ spare' = spare - 1
    /\ cs' = [cs EXCEPT ![p].foreign = TRUE]
    /\ last' = NoAttempt
    /\ UNCHANGED <<certs, issuers, secrets, nsArgo, targets, manager>>

\* Another controller's finalizer on the parent is removed
RemoveForeign(p) ==
    /\ cs[p].phase # "absent"
    /\ cs[p].foreign
    /\ cs' = [cs EXCEPT ![p] = IF @.phase = "deleting" /\ ~@.finalizer
                                THEN AbsentParent(p)
                                ELSE [@ EXCEPT !.foreign = FALSE]]
    /\ last' = NoAttempt
    /\ UNCHANGED <<certs, issuers, secrets, nsArgo, targets, spare, manager>>

\* ------------------------------------------------ cert-manager backend
\* The key sets the backend leaves in a Certificate's Secret: the full bundle,
\* or one without ca.crt
BackendKeySets == {BundleKeys, {"tls.crt", "tls.key"}}

\* cert-manager writes the Secret of an existing Certificate (the model keeps
\* the Secrets the controller reads: the CA's and the super-admin's)
BackendSecret(k) ==
    /\ k \in DOMAIN certs
    /\ Key(k[1], certs[k].spec.secretName) \in SecretKeys
    /\ \E keys \in BackendKeySets, v \in 1..MaxBundle :
          LET key == Key(k[1], certs[k].spec.secretName)
              new == [data |-> [x \in keys |-> <<x, v>>], owner |-> {}, labels |-> {}]
              disturbed == keys # BundleKeys \/ v > 1
          IN /\ certs[k].spec.isCA => v = 1
             /\ key \in DOMAIN secrets => secrets[key] # new
             /\ disturbed => spare > 0
             /\ spare' = IF disturbed THEN spare - 1 ELSE spare
             /\ secrets' = Put(secrets, key, new)
    /\ last' = NoAttempt
    /\ UNCHANGED <<cs, certs, issuers, nsArgo, targets, manager>>

\* cert-manager sets the Ready condition of a Certificate
\* cert-manager sets the Ready condition of a Certificate to one of statuses
BackendCertificateCondition(k, statuses) ==
    /\ k \in DOMAIN certs
    /\ \E r \in statuses :
          /\ certs[k].ready # r
          /\ r # "True" => spare > 0
          /\ spare' = IF r # "True" THEN spare - 1 ELSE spare
          /\ certs' = [certs EXCEPT ![k].ready = r]
    /\ last' = NoAttempt
    /\ UNCHANGED <<cs, issuers, secrets, nsArgo, targets, manager>>

BackendCertificateReady(k) == BackendCertificateCondition(k, {"True", "False"})

\* cert-manager sets the Ready condition of an Issuer to one of statuses
BackendIssuerCondition(k, statuses) ==
    /\ k \in DOMAIN issuers
    /\ \E r \in statuses :
          /\ issuers[k].ready # r
          /\ r # "True" => spare > 0
          /\ spare' = IF r # "True" THEN spare - 1 ELSE spare
          /\ issuers' = [issuers EXCEPT ![k].ready = r]
    /\ last' = NoAttempt
    /\ UNCHANGED <<cs, certs, secrets, nsArgo, targets, manager>>

BackendIssuerReady(k) == BackendIssuerCondition(k, {"True", "False"})

\* ------------------------------------------------------- the cluster
CreateNamespace ==
    /\ ~nsArgo
    /\ nsArgo' = TRUE
    /\ last' = NoAttempt
    /\ UNCHANGED <<cs, certs, issuers, secrets, targets, spare, manager>>

\* Deleting the namespace deletes the Secrets in it
DeleteNamespace ==
    /\ nsArgo
    /\ spare > 0
    /\ spare' = spare - 1
    /\ nsArgo' = FALSE
    /\ secrets' = [k \in {x \in DOMAIN secrets : x[1] # ArgoCDNamespace} |-> secrets[k]]
    /\ last' = NoAttempt
    /\ UNCHANGED <<cs, certs, issuers, targets, manager>>

\* ------------------------------------------------------ specifications
Environments == {EnvironmentClient, EnvironmentSystem, EnvironmentInfra}

\* A CertificateSet as the API server admits it on creation
NewParent(p, env, kubeconfig, argocd, foreign) ==
    [ns |-> p.ns, name |-> p.name, phase |-> "live", env |-> env,
     kubeconfig |-> kubeconfig, argocd |-> argocd, issuerRef |-> IssuerReference("i1"),
     issuerRefOidc |-> IF env = EnvironmentInfra THEN {OidcReference} ELSE {},
     endpoint |-> IF kubeconfig \/ argocd THEN Endpoint ELSE "",
     generation |-> 1, finalizer |-> FALSE, foreign |-> foreign, conds |-> <<>>]

\* A user edits a derived Secret of a live parent: adds a data key and a
\* label of their own and takes the owner reference off, and may take out the
\* keys that were there
DerivedKeys == {Key(p.ns, KubeconfigName(p)) : p \in Parents} \cup {RegistrationKey(p) : p \in Parents}
EditSecret(key) ==
    /\ key \in DOMAIN secrets
    /\ spare > 0
    /\ spare' = spare - 1
    /\ \E overwrite \in BOOLEAN :
          LET old == secrets[key]
              data == [k \in (IF overwrite THEN {} ELSE DOMAIN old.data) \cup {"note"} |->
                         IF k = "note" THEN "user" ELSE old.data[k]]
          IN secrets' = Put(secrets, key,
                            [old EXCEPT !.data = data, !.owner = {}, !.labels = @ \cup {"user=yes"}])
    /\ last' = NoAttempt
    /\ UNCHANGED <<cs, certs, issuers, nsArgo, targets, manager>>

\* ------------------------------------------------- the manager's selectors
\* A --label-selector value is a key, "=" and a value
IsKeyValue(labelSelector) ==
    /\ Len(labelSelector) = 3
    /\ labelSelector[1] # ""
    /\ labelSelector[2] = "="

\* A validation that lets the manager start with no selector at all
validateSelectorsAllowingNone(clusterWide, namespace, labelSelector) ==
    {e \in {"cluster-wide cannot be combined", "Invalid label-selector format"} :
        \/ /\ e = "cluster-wide cannot be combined"
           /\ clusterWide /\ (namespace # "" \/ labelSelector # <<>>)
        \/ /\ e = "Invalid label-selector format"
           /\ labelSelector # <<>> /\ ~IsKeyValue(labelSelector)}

\* The startup errors of the selector flags; an unset --namespace is "", an
\* unset --label-selector is <<>>
validateSelectors(clusterWide, namespace, labelSelector) ==
    {e \in {"Selector required", "cluster-wide cannot be combined",
            "Invalid label-selector format"} :
        \/ /\ e = "Selector required"
           /\ ~clusterWide /\ namespace = "" /\ labelSelector = <<>>
        \/ /\ e = "cluster-wide cannot be combined"
           /\ clusterWide /\ (namespace # "" \/ labelSelector # <<>>)
        \/ /\ e = "Invalid label-selector format"
           /\ labelSelector # <<>> /\ ~IsKeyValue(labelSelector)}

Manager(clusterWide, namespace, labelSelector, state, error) ==
    [clusterWide |-> clusterWide, namespace |-> namespace,
     labelSelector |-> labelSelector, state |-> state, error |-> error]

\* ./manager --cluster-wide, running
ClusterWideManager == Manager(TRUE, "", <<>>, "running", "")

\* The manager is started with some selector flags: it runs when they
\* validate and exits with one of the errors when they do not
StartManager ==
    /\ manager.state = "starting"
    /\ \E clusterWide \in BOOLEAN, namespace \in {"", "production"},
          labelSelector \in {<<>>, <<"team", "=", "platform">>, <<"invalid">>} :
          LET errors == validateSelectors(clusterWide, namespace, labelSelector)
          IN IF errors = {}
             THEN manager' = Manager(clusterWide, namespace, labelSelector, "running", "")
             ELSE \E e \in errors :
                     manager' = Manager(clusterWide, namespace, labelSelector, "failed", e)
    /\ last' = NoAttempt
    /\ UNCHANGED <<cs, certs, issuers, secrets, nsArgo, targets, spare>>

EmptyStore ==
    /\ manager = ClusterWideManager
    /\ certs = <<>>
    /\ issuers = <<>>
    /\ secrets = <<>>
    /\ nsArgo = TRUE
    /\ targets = [p \in Parents |-> {}]
    /\ last = NoAttempt

\* One parent of environment client, of any flags, in a cluster that sees
\* disturbances
Init ==
    /\ \E kubeconfig \in BOOLEAN, argocd \in BOOLEAN :
          cs = [p \in Parents |->
                  IF p = P1 THEN NewParent(p, EnvironmentClient, kubeconfig, argocd, FALSE)
                  ELSE AbsentParent(p)]
    /\ spare = MaxDisturbances
    /\ EmptyStore

Next ==
    \/ \E p \in Parents : Reconcile(p)
    \/ \E p \in Parents : ToggleArgocd(p)
    \/ \E p \in Parents : ChangeIssuerRef(p)
    \/ \E p \in Parents : SetEndpoint(p)
    \/ \E p \in Parents : DeleteParent(p)
    \/ \E p \in Parents : AddForeign(p)
    \/ \E p \in Parents : RemoveForeign(p)
    \/ \E k \in CertKeys : BackendSecret(k)
    \/ \E k \in CertKeys : BackendCertificateReady(k)
    \/ \E k \in IssuerKeys : BackendIssuerReady(k)
    \/ CreateNamespace
    \/ DeleteNamespace

Spec == Init /\ [][Next]_vars

\* One parent of any environment and flags, in a cluster without disturbances
InitTopology ==
    /\ \E env \in Environments, kubeconfig \in BOOLEAN, argocd \in BOOLEAN :
          cs = [p \in Parents |->
                  IF p = P1 THEN NewParent(p, env, kubeconfig, argocd, FALSE)
                  ELSE AbsentParent(p)]
    /\ spare = 0
    /\ EmptyStore

NextTopology ==
    \/ \E p \in Parents : Reconcile(p)
    \/ \E p \in Parents : ToggleArgocd(p)
    \/ \E p \in Parents : SetEndpoint(p)
    \/ \E p \in Parents : DeleteParent(p)
    \/ \E k \in CertKeys : BackendSecret(k)
    \/ \E k \in CertKeys : BackendCertificateReady(k)
    \/ \E k \in IssuerKeys : BackendIssuerReady(k)

SpecTopology == InitTopology /\ [][NextTopology]_vars

\* One system parent under any flags, its store calls failing or the
\* registration namespace going away within the disturbance budget
InitSystem ==
    /\ \E kubeconfig \in BOOLEAN, argocd \in BOOLEAN :
          cs = [p \in Parents |->
                  IF p = P1 THEN NewParent(p, EnvironmentSystem, kubeconfig, argocd, FALSE)
                  ELSE AbsentParent(p)]
    /\ spare = MaxDisturbances
    /\ EmptyStore

NextSystem ==
    \/ \E p \in Parents : Reconcile(p)
    \/ \E k \in CertKeys : BackendSecret(k)
    \/ \E k \in CertKeys : BackendCertificateReady(k)
    \/ \E k \in IssuerKeys : BackendIssuerReady(k)
    \/ CreateNamespace
    \/ DeleteNamespace

SpecSystem == InitSystem /\ [][NextSystem]_vars

\* One client parent, and another writer of its status that may write during
\* an attempt
InitWriters ==
    /\ \E kubeconfig \in BOOLEAN :
          cs = [p \in Parents |->
                  IF p = P1 THEN NewParent(p, EnvironmentClient, kubeconfig, FALSE, FALSE)
                  ELSE AbsentParent(p)]
    /\ spare = 0
    /\ EmptyStore

NextWriters ==
    \/ \E p \in Parents : Reconcile(p)
    \/ \E p \in Parents : ReconcileRaced(p)
    \/ \E p \in Parents : DeleteParent(p)
    \/ \E k \in CertKeys : BackendSecret(k)
    \/ \E k \in CertKeys : BackendCertificateReady(k)
    \/ \E k \in IssuerKeys : BackendIssuerReady(k)

SpecWriters == InitWriters /\ [][NextWriters]_vars

\* One client parent whose Certificates and Issuer go through every status of
\* the Ready condition: True, False, Unknown
ConditionStatuses == {"True", "False", "Unknown"}

InitReadiness ==
    /\ \E kubeconfig \in BOOLEAN :
          cs = [p \in Parents |->
                  IF p = P1 THEN NewParent(p, EnvironmentClient, kubeconfig, FALSE, FALSE)
                  ELSE AbsentParent(p)]
    /\ spare = MaxDisturbances
    /\ EmptyStore

NextReadiness ==
    \/ \E p \in Parents : Reconcile(p)
    \/ \E k \in CertKeys : BackendSecret(k)
    \/ \E k \in CertKeys : BackendCertificateCondition(k, ConditionStatuses)
    \/ \E k \in IssuerKeys : BackendIssuerCondition(k, ConditionStatuses)

SpecReadiness == InitReadiness /\ [][NextReadiness]_vars

\* The manager starting with any selector flags, in a cluster whose user
\* edits and deletes a CertificateSet
InitStartup ==
    /\ \E kubeconfig \in BOOLEAN, argocd \in BOOLEAN :
          cs = [p \in Parents |->
                  IF p = P1 THEN NewParent(p, EnvironmentClient, kubeconfig, argocd, FALSE)
                  ELSE AbsentParent(p)]
    /\ manager = Manager(FALSE, "", <<>>, "starting", "")
    /\ spare = 0
    /\ certs = <<>>
    /\ issuers = <<>>
    /\ secrets = <<>>
    /\ nsArgo = TRUE
    /\ targets = [p \in Parents |-> {}]
    /\ last = NoAttempt

NextStartup ==
    \/ StartManager
    \/ \E p \in Parents : ToggleArgocd(p)
    \/ \E p \in Parents : SetEndpoint(p)
    \/ \E p \in Parents : DeleteParent(p)

SpecStartup == InitStartup /\ [][NextStartup]_vars

\* Two parents of the same name in two namespaces, both with argocdCluster
InitTwo ==
    /\ cs = [p \in Parents |-> NewParent(p, EnvironmentClient, FALSE, TRUE, FALSE)]
    /\ spare = 0
    /\ EmptyStore

NextTwo ==
    \/ \E p \in Parents : Reconcile(p)
    \/ \E p \in Parents : DeleteParent(p)
    \/ \E k \in CertKeys : BackendSecret(k)
    \/ \E k \in CertKeys : BackendCertificateReady(k)
    \/ \E k \in IssuerKeys : BackendIssuerReady(k)

SpecTwo == InitTwo /\ [][NextTwo]_vars

\* One client parent of any flags whose derived Secrets a user may edit
NextSecrets ==
    \/ \E p \in Parents : Reconcile(p)
    \/ \E key \in DerivedKeys : EditSecret(key)
    \/ \E k \in CertKeys : BackendSecret(k)
    \/ \E k \in CertKeys : BackendCertificateReady(k)
    \/ \E k \in IssuerKeys : BackendIssuerReady(k)

SpecSecrets == Init /\ [][NextSecrets]_vars

\* A work queue that drops the re-invocation requests
DueWithoutRequeue(p) ==
    last = NoAttempt \/ last.p # {p} \/ last.err
\* A work queue that does not retry after an error
DueWithoutRetry(p) ==
    last = NoAttempt \/ last.p # {p} \/ last.requeue # "none"
\* The work queue: an attempt on p is due after a change in the cluster (the
\* last step was not an attempt on p: an event on the parent or on an object
\* it owns, or a request that was pending before it and still is), after an
\* attempt that asked to be re-invoked, and after an attempt that returned an
\* error
Due(p) ==
    last = NoAttempt \/ last.p # {p} \/ last.requeue # "none" \/ last.err

\* The attempt the scheduler runs on p when one is due
ScheduledReconcile(p) ==
    /\ Due(p)
    /\ Reconcile(p)

\* Whether an attempt on p that is due would change the state: the state
\* predicate ENABLED <<ScheduledReconcile(p)>>_vars, written out from the
\* assignments of Reconcile(p)
ScheduledReconcileEnabled(p) ==
    /\ Due(p)
    /\ \E fault \in Faults(p), patchFails \in BOOLEAN :
        LET a == ReconcileAttempt(p, fault, patchFails)
            disturbed == fault # "none" \/ patchFails
        IN /\ disturbed => spare > 0
           /\ fault # "none" => a.faultHit
           /\ patchFails => a.patchHit
           /\ <<[cs EXCEPT ![p] = a.stored], a.certs, a.issuers, a.secrets, nsArgo,
                [targets EXCEPT ![p] = @ \cup a.reg],
                IF disturbed THEN spare - 1 ELSE spare, manager, Summary(a)>> # vars

\* The scheduler honours every re-invocation: weak fairness of the due attempt
\* on p, WF_vars(ScheduledReconcile(p)), with its ENABLED written out
ScheduledFairly(p) ==
    \/ []<>(~ScheduledReconcileEnabled(p))
    \/ []<><<ScheduledReconcile(p)>>_vars

\* The parent the user works on
LiveParents == {P1}

\* One client parent whose user edits and deletes it, in a cluster that sees
\* finitely many disturbances; the scheduler runs every attempt that is due,
\* and cert-manager issues every Secret and sets every Ready condition
NextLive ==
    \/ \E p \in LiveParents : ScheduledReconcile(p)
    \/ \E p \in LiveParents : ToggleArgocd(p)
    \/ \E p \in LiveParents : DeleteParent(p)
    \/ \E k \in CertKeys : BackendSecret(k)
    \/ \E k \in CertKeys : BackendCertificateReady(k)
    \/ \E k \in IssuerKeys : BackendIssuerReady(k)

SpecLive ==
    /\ Init
    /\ [][NextLive]_vars
    /\ \A p \in LiveParents : ScheduledFairly(p)
    /\ \A k \in CertKeys : WF_vars(BackendSecret(k))
    /\ \A k \in CertKeys : WF_vars(BackendCertificateReady(k))
    /\ \A k \in IssuerKeys : WF_vars(BackendIssuerReady(k))

\* --------------------------------------------------------- properties
\* The last step was a reconcile attempt on parent p
Attempted(p) == last.exit # "none" /\ last.p = {p}

\* The attempt called setCondition for type t with this status
SetTo(t, status) == t \in DOMAIN last.set /\ last.set[t].status = status

HasCertificate(p, name) == Key(p.ns, name) \in DOMAIN certs
HasIssuer(p) == Key(p.ns, CAName(p)) \in DOMAIN issuers
HasSecret(key) == key \in DOMAIN secrets

\* C1: whenever an attempt ends by setting Ready=True, the children that exist
\* are exactly: Certificate <name>-ca; the etcd, proxy and ca-oidc Certificates
\* iff the environment is system or infra; Issuer <name>-ca and Certificate
\* <name>-super-admin iff kubeconfig or argocdCluster is currently true; Secret
\* <name>-kubeconfig iff kubeconfig; Secret <name>-argocd-cluster in
\* beget-argocd iff argocdCluster is currently true.
C1ExactChildSet ==
    \A p \in Parents :
        Attempted(p) /\ SetTo(ConditionTypeReady, "True") =>
            /\ HasCertificate(p, CAName(p))
            /\ \A n \in {ETCDName(p), ProxyName(p), CAOIDCName(p)} :
                  HasCertificate(p, n) <=> isSystemOrInfra(cs[p].env)
            /\ HasIssuer(p) <=> needsClientCerts(cs[p])
            /\ HasCertificate(p, SuperAdminName(p)) <=> needsClientCerts(cs[p])
            /\ HasSecret(Key(p.ns, KubeconfigName(p))) <=> cs[p].kubeconfig
            /\ HasSecret(RegistrationKey(p)) <=> cs[p].argocd

\* Every Certificate of AllCertificateNames and, with client certificates, the
\* Issuer <name>-ca exist in the store with a Ready condition of status True
AllReadyInStore(p) ==
    /\ \A i \in 1..Len(AllCertificateNames(cs[p])) :
          LET key == Key(p.ns, AllCertificateNames(cs[p])[i])
          IN key \in DOMAIN certs /\ certs[key].ready = "True"
    /\ needsClientCerts(cs[p]) =>
          /\ HasIssuer(p)
          /\ issuers[Key(p.ns, CAName(p))].ready = "True"

\* C2: an attempt sets Ready to True only if its readiness aggregation found
\* Ready=True on every Certificate of AllCertificateNames(cs) and, when
\* kubeconfig or argocdCluster is true, on Issuer <name>-ca; when one of them is
\* missing, has no Ready condition or has Ready other than True, the attempt
\* that reaches the aggregation sets Ready=False.
C2ReadyOnlyIfAllReady ==
    \A p \in Parents :
        Attempted(p) =>
            /\ SetTo(ConditionTypeReady, "True") =>
                  last.found = "allReady" /\ AllReadyInStore(p)
            /\ last.found # "unchecked" /\ ~AllReadyInStore(p) =>
                  SetTo(ConditionTypeReady, "False")

\* An attempt found every Certificate ready and the Issuer with Ready=False,
\* and set Ready=False
C2IssuerNotReady ==
    \E p \in Parents :
        /\ Attempted(p)
        /\ last.found = "notReady"
        /\ SetTo(ConditionTypeReady, "False")
        /\ \A i \in 1..Len(AllCertificateNames(cs[p])) :
              isCertificateReady(certs, Key(p.ns, AllCertificateNames(cs[p])[i]))
        /\ HasIssuer(p)
        /\ issuers[Key(p.ns, CAName(p))].ready = "False"

\* The exits of an attempt that completed Phase A (reconcileCACertificates)
\* without error
ExitsPastPhaseA ==
    {"gateAErr", "gateAWait", "phaseBErr", "gateBErr", "gateBWait", "certDataErr",
     "phaseCErr", "cleanupErr", "checkErr", "waitingPatchErr", "waiting",
     "completePatchErr", "complete"}

C4NoStatusCallWhenConverged ==
    [][\A p \in Parents :
          /\ Attempted(p)
          /\ last.exit = "complete"
          /\ last'.p = {p}
          /\ last'.exit \notin {"none", "getParentErr"}
          => /\ last'.statusCalls = 0
             /\ cs'[p].conds = cs[p].conds]_vars

\* C5 as stated: no two distinct parents target the same Registration Secret:
\* the keys of the Registration Secrets their attempts create, update or delete
\* are disjoint.
C5DistinctRegistrationSecrets ==
    \A p \in Parents, q \in Parents :
        p # q => targets[p] \cap targets[q] = {}

\* The exits of an attempt that passed Gate A and Gate B and returned no error
ExitsPastGates == {"waiting", "complete"}

\* C6: at the end of every non-deleting attempt that passed Gate A and Gate B
\* and returned no error, Secret <name>-argocd-cluster exists in beget-argocd
\* if and only if spec.argocdCluster is true and the namespace exists.
C6RegistrationSecretIffWanted ==
    \A p \in Parents :
        Attempted(p) /\ ~last.deleting /\ last.exit \in ExitsPastGates =>
            (HasSecret(RegistrationKey(p)) <=> (cs[p].argocd /\ nsArgo))

\* An attempt with argocdCluster true passed the gates and created the
\* Registration Secret in the existing namespace
C6SecretCreated ==
    \E p \in Parents :
        /\ Attempted(p)
        /\ ~last.deleting
        /\ last.exit \in ExitsPastGates
        /\ cs[p].argocd
        /\ nsArgo
        /\ Op("create", "Secret", RegistrationKey(p)) \in last.ops
        /\ HasSecret(RegistrationKey(p))

\* The exits of a non-deleting attempt that reached the drift-cleanup step
ExitsAtCleanup ==
    {"cleanupErr", "checkErr", "waitingPatchErr", "waiting", "completePatchErr", "complete"}

\* The attempt read the super-admin bundle and entered Phase C
ReachedPhaseC == last.bundle # {}

\* The Registration Secret of p carries config, name and server as rendered from
\* the bundle the attempt read and the endpoint of the spec
RegistrationRendered(p) ==
    /\ HasSecret(RegistrationKey(p))
    /\ {"config", "name", "server"} \subseteq DOMAIN secrets[RegistrationKey(p)].data
    /\ \A b \in last.bundle :
          /\ b = CertificateData(secrets[Key(p.ns, SuperAdminName(p))].data)
          /\ secrets[RegistrationKey(p)].data["config"] =
                [template |-> "argocd", CACert |-> b.CACert, TLSCert |-> b.TLSCert,
                 TLSKey |-> b.TLSKey]
    /\ secrets[RegistrationKey(p)].data["name"] = [text |-> p.name]
    /\ secrets[RegistrationKey(p)].data["server"] = [text |-> cs[p].endpoint]

\* C7 as stated: with argocdCluster false, an attempt that reaches the
\* drift-cleanup step deletes the Registration Secret; with argocdCluster true,
\* an attempt that reaches Phase C leaves the secret with config, name and
\* server rendered from the bundle and endpoint read in that attempt.
C7ToggleDeletesAndRecreates ==
    \A p \in Parents :
        Attempted(p) /\ ~last.deleting =>
            /\ last.exit \in ExitsAtCleanup /\ ~cs[p].argocd =>
                  ~HasSecret(RegistrationKey(p))
            /\ ReachedPhaseC /\ cs[p].argocd => RegistrationRendered(p)

\* C7, amended: with argocdCluster false, an attempt that completes the
\* drift-cleanup step without error leaves no Registration Secret, and one
\* whose lookup or delete fails returns the error with Degraded=True; with
\* argocdCluster true, an attempt that completes Phase C without error leaves
\* the secret rendered from the bundle and endpoint it read, and one whose
\* Phase C fails (the namespace is missing, a store call fails) returns the
\* error and does not write the secret.
C7ToggleWhenStepSucceeds ==
    \A p \in Parents :
        Attempted(p) /\ ~last.deleting =>
            /\ last.exit \in ExitsAtCleanup \ {"cleanupErr"} /\ ~cs[p].argocd =>
                  ~HasSecret(RegistrationKey(p))
            /\ last.exit = "cleanupErr" =>
                  /\ last.err
                  /\ SetTo(ConditionTypeDegraded, "True")
                  /\ Op("delete", "Secret", RegistrationKey(p)) \notin last.ops
            /\ ReachedPhaseC /\ last.exit # "phaseCErr" /\ cs[p].argocd =>
                  RegistrationRendered(p)
            /\ last.exit = "phaseCErr" =>
                  /\ last.err
                  /\ SetTo(ConditionTypeDegraded, "True")
                  /\ \A verb \in {"create", "update"} :
                        Op(verb, "Secret", RegistrationKey(p)) \notin last.ops

\* argocdCluster went from true to false, with no disturbance, and the next
\* attempt that reached the drift cleanup deleted the Registration Secret
C7Deleted ==
    \E p \in Parents :
        /\ Attempted(p)
        /\ ~last.deleting
        /\ spare = MaxDisturbances
        /\ ~cs[p].argocd
        /\ cs[p].generation = 2
        /\ last.exit \in ExitsAtCleanup
        /\ Op("delete", "Secret", RegistrationKey(p)) \in last.ops
        /\ ~HasSecret(RegistrationKey(p))

ParentKey(p) == Key(p.ns, p.name)

\* The writes of an attempt to Certificates, Issuers and Secrets
ChildOps == {o \in last.ops : o.kind # "CertificateSet"}

\* C8: in the deletion branch the cleanup finalizer is removed from the parent
\* only after the delete of the Registration Secret succeeded or the secret was
\* found absent; when the lookup or the delete fails with another error the
\* finalizer stays on the parent and the error is returned.
C8FinalizerOnlyAfterCleanup ==
    \A p \in Parents :
        Attempted(p) /\ last.deleting =>
            /\ last.hadFinalizer /\ ~cs[p].finalizer =>
                  /\ ~HasSecret(RegistrationKey(p))
                  /\ last.exit = "deleted"
            /\ last.exit = "deleteSecretErr" =>
                  /\ last.err
                  /\ cs[p].phase = "deleting"
                  /\ cs[p].finalizer = last.hadFinalizer
                  /\ Op("update", "CertificateSet", ParentKey(p)) \notin last.ops

\* The delete of the Registration Secret failed in the deletion branch: the
\* secret and the finalizer are still there and the error is returned
C8DeleteFailed ==
    \E p \in Parents :
        /\ Attempted(p)
        /\ last.deleting
        /\ last.exit = "deleteSecretErr"
        /\ last.err
        /\ HasSecret(RegistrationKey(p))
        /\ cs[p].finalizer

\* C9: an attempt that observes a deletion timestamp performs only the cleanup
\* path: it creates or updates no Certificate, Issuer or Secret, writes no
\* status condition and never adds the finalizer, whatever the flags and
\* whether or not the finalizer is present.
C9DeletionOnlyCleansUp ==
    [][\A p \in Parents :
          /\ last'.p = {p}
          /\ last'.exit # "none"
          /\ last'.deleting
          => /\ certs' = certs
             /\ issuers' = issuers
             /\ secrets' \in {secrets, Drop(secrets, RegistrationKey(p))}
             /\ last'.ops \subseteq {Op("delete", "Secret", RegistrationKey(p)),
                                     Op("update", "CertificateSet", ParentKey(p))}
             /\ last'.statusCalls = 0
             /\ DOMAIN last'.set = {}
             /\ cs'[p].phase = "deleting" => cs'[p].conds = cs[p].conds
             /\ ~cs[p].finalizer => ~cs'[p].finalizer]_vars

\* An attempt ran the cleanup path on a parent under deletion that never had
\* the finalizer (another controller's finalizer holds the object)
C9DeletingWithoutFinalizer ==
    \E p \in Parents :
        /\ Attempted(p)
        /\ last.deleting
        /\ ~last.hadFinalizer
        /\ last.exit = "deleted"
        /\ cs[p].phase = "deleting"
        /\ ~cs[p].finalizer

\* The attempts that read the parent
ObservedParent == last.exit \notin {"none", "getParentErr", "notFound"}

\* C10 as stated: on every invocation in which the cleanup finalizer is absent
\* from the parent, the attempt attaches the finalizer and returns an immediate
\* re-invocation request, and creates, updates or deletes no child resource and
\* writes no status.
C10AttachAndRequeueAlways ==
    \A p \in Parents :
        Attempted(p) /\ ObservedParent /\ ~last.hadFinalizer =>
            /\ cs[p].finalizer
            /\ last.requeue = "immediate"
            /\ ChildOps = {}
            /\ last.statusCalls = 0

\* C10, amended: on every invocation in which the parent carries no deletion
\* timestamp and the cleanup finalizer is absent, the attempt does nothing but
\* the update that attaches the finalizer: when the update succeeds the
\* finalizer is on the parent and an immediate re-invocation is requested, when
\* it fails the error is returned; either way no child resource is created,
\* updated or deleted and no status is written.  Under a deletion timestamp the
\* finalizer is not attached.
C10AttachWhenNotDeleting ==
    \A p \in Parents :
        Attempted(p) /\ ObservedParent /\ ~last.hadFinalizer =>
            /\ ~last.deleting =>
                  /\ last.exit \in {"finalizerAdded", "finalizerErr"}
                  /\ last.exit = "finalizerAdded" =>
                        /\ cs[p].finalizer
                        /\ last.requeue = "immediate"
                        /\ ~last.err
                        /\ last.ops = {Op("update", "CertificateSet", ParentKey(p))}
                  /\ last.exit = "finalizerErr" =>
                        /\ ~cs[p].finalizer
                        /\ last.requeue = "none"
                        /\ last.err
                        /\ last.ops = {}
                  /\ ChildOps = {}
                  /\ last.statusCalls = 0
                  /\ DOMAIN last.set = {}
            /\ last.deleting =>
                  /\ ~cs[p].finalizer
                  /\ last.requeue = "none"

\* An attempt on a parent without the finalizer attached it and asked for an
\* immediate re-invocation
C10FinalizerAttached ==
    \E p \in Parents :
        /\ Attempted(p)
        /\ ~last.deleting
        /\ ~last.hadFinalizer
        /\ last.exit = "finalizerAdded"
        /\ cs[p].finalizer
        /\ last.requeue = "immediate"

\* ---- Gate A ----

CASecretKey(p) == Key(p.ns, CAName(p))
SuperAdminSecretKey(p) == Key(p.ns, SuperAdminName(p))

\* The stored Secret carries the three fields of an issued bundle
HoldsBundle(key) == key \in DOMAIN secrets /\ BundleKeys \subseteq DOMAIN secrets[key].data

\* A non-deleting attempt on a parent that holds the finalizer got as far as
\* the CA Secret lookup, and the lookup did not fail
ReachedGateA ==
    /\ ObservedParent
    /\ ~last.deleting
    /\ last.hadFinalizer
    /\ last.exit \notin {"phaseAErr", "gateAErr"}

\* Every store write of the attempt is a write of a CA or auxiliary Certificate
OnlyPhaseAOps(p) ==
    \A o \in last.ops : o.kind = "Certificate" /\ o.key # SuperAdminSecretKey(p)

ReachedGateB(p) ==
    /\ ReachedGateA
    /\ HoldsBundle(CASecretKey(p))
    /\ needsClientCerts(cs[p])
    /\ last.exit \notin {"phaseBErr", "gateBErr"}

SecretOps == {o \in last.ops : o.kind = "Secret"}

IssuerKey(p) == Key(p.ns, CAName(p))
KubeconfigKey(p) == Key(p.ns, KubeconfigName(p))

Wrote(kind, key) ==
    Op("create", kind, key) \in last.ops \/ Op("update", kind, key) \in last.ops

\* C13: an attempt writes the Issuer only where the CA Secret holds ca.crt,
\* tls.crt and tls.key; it writes the super-admin Certificate only after its
\* own create-or-update of the Issuer succeeded (the Issuer is stored with the
\* spec built from the parent and no Issuer call failed); it writes the
\* Credential Secret or the Registration Secret only where the super-admin
\* Secret holds the three fields, from the bundle read out of that Secret.
C13DependencyOrder ==
    \A p \in Parents :
        Attempted(p) =>
            /\ Wrote("Issuer", IssuerKey(p)) => HoldsBundle(CASecretKey(p))
            /\ Wrote("Certificate", SuperAdminSecretKey(p)) =>
                  /\ HoldsBundle(CASecretKey(p))
                  /\ HasIssuer(p)
                  /\ issuers[IssuerKey(p)].spec = buildIssuer(p, cs[p]).spec
                  /\ last.fault # "issuer"
            /\ Wrote("Secret", KubeconfigKey(p)) \/ Wrote("Secret", RegistrationKey(p)) =>
                  /\ HasIssuer(p)
                  /\ HasCertificate(p, SuperAdminName(p))
                  /\ HoldsBundle(SuperAdminSecretKey(p))
                  /\ last.bundle = {CertificateData(secrets[SuperAdminSecretKey(p)].data)}

\* One attempt created the Issuer and the super-admin Certificate over a
\* populated CA Secret
C13IssuerThenCertificate ==
    \E p \in Parents :
        /\ Attempted(p)
        /\ Op("create", "Issuer", IssuerKey(p)) \in last.ops
        /\ Op("create", "Certificate", SuperAdminSecretKey(p)) \in last.ops
        /\ HoldsBundle(CASecretKey(p))
        /\ last.exit = "gateBWait"

\* ---- Both flags off ----

\* A client parent whose kubeconfig and argocdCluster have been false since it
\* was created: kubeconfig never changes, argocdCluster=true is admitted only
\* with an endpoint, and an endpoint, once set, stays
BareClient(p) ==
    /\ cs[p].phase # "absent"
    /\ cs[p].env = EnvironmentClient
    /\ ~cs[p].kubeconfig
    /\ ~cs[p].argocd
    /\ cs[p].endpoint = ""

CACertificateKey(p) == Key(p.ns, CAName(p))

\* C14: for a client parent with kubeconfig=false and argocdCluster=false
\* throughout, the only object the controller ever writes is Certificate
\* <name>-ca (no Issuer, no super-admin or auxiliary Certificate, no derived
\* Secret exists or is written), and an attempt that finds the CA Secret
\* populated and the CA Certificate Ready=True, none of its store calls
\* failing, sets Ready=True and stores it.
C14OnlyCACertificate ==
    \A p \in Parents :
        BareClient(p) =>
            /\ DOMAIN certs \subseteq {CACertificateKey(p)}
            /\ DOMAIN issuers = {}
            /\ DOMAIN secrets \subseteq {CASecretKey(p)}
            /\ Attempted(p) =>
                  /\ \A o \in ChildOps : o.kind = "Certificate" /\ o.key = CACertificateKey(p)
                  /\ ( /\ ~last.deleting
                       /\ HoldsBundle(CASecretKey(p))
                       /\ HasCertificate(p, CAName(p))
                       /\ certs[CACertificateKey(p)].ready = "True"
                       /\ last.fault = "none"
                       /\ ~last.patchFailed )
                     => /\ last.exit = "complete"
                        /\ SetTo(ConditionTypeReady, "True")
                        /\ ConditionTypeReady \in DOMAIN cs[p].conds
                        /\ cs[p].conds[ConditionTypeReady].status = "True"

\* A parent with both flags off reached Ready=True with Certificate <name>-ca
\* as the only object written
C14ReadyWithCAOnly ==
    \E p \in Parents :
        /\ BareClient(p)
        /\ Attempted(p)
        /\ last.exit = "complete"
        /\ DOMAIN certs = {CACertificateKey(p)}
        /\ DOMAIN issuers = {}
        /\ DOMAIN secrets = {CASecretKey(p)}
        /\ cs[p].conds[ConditionTypeReady].status = "True"

\* ---- Registration namespace ----

\* The attempt read the certificate bundle and its Credential Secret step did
\* not fail: Phase C got to the Registration Secret
ReachedRegistrationStep(p) ==
    /\ Attempted(p)
    /\ ReachedPhaseC
    /\ cs[p].argocd
    /\ last.fault # "kubeconfigSecret"

\* C15: with argocdCluster true and namespace beget-argocd missing, the attempt
\* that gets to the Registration Secret creates none, returns an error with no
\* re-invocation request, and sets Degraded=True with reason
\* DerivedSecretsFailed and the namespace-missing message; with the namespace
\* there and the Secret not yet stored, the attempt, none of its store calls
\* failing, creates the Registration Secret.
C15NamespaceMissingIsAnError ==
    [][\A p \in Parents :
          ReachedRegistrationStep(p)' =>
              /\ (~nsArgo /\ last'.fault # "getNamespace") =>
                    /\ last'.exit = "phaseCErr"
                    /\ last'.err
                    /\ last'.requeue = "none"
                    /\ ConditionTypeDegraded \in DOMAIN last'.set
                    /\ last'.set[ConditionTypeDegraded] =
                          [status |-> "True", reason |-> "DerivedSecretsFailed",
                           message |-> "ArgoCD namespace does not exist"]
                    /\ \A o \in last'.ops : o.key # RegistrationKey(p)
                    /\ (RegistrationKey(p) \in DOMAIN secrets') =
                          (RegistrationKey(p) \in DOMAIN secrets)
              /\ (nsArgo /\ last'.fault = "none" /\ RegistrationKey(p) \notin DOMAIN secrets) =>
                    /\ Op("create", "Secret", RegistrationKey(p)) \in last'.ops
                    /\ RegistrationKey(p) \in DOMAIN secrets'
                    /\ last'.exit # "phaseCErr"
      ]_vars

\* An attempt failed on the missing namespace and left no Registration Secret
C15FailedOnMissingNamespace ==
    \E p \in Parents :
        /\ ReachedRegistrationStep(p)
        /\ ~nsArgo
        /\ last.exit = "phaseCErr"
        /\ last.fault = "none"
        /\ ~HasSecret(RegistrationKey(p))
        /\ ConditionTypeDegraded \in DOMAIN cs[p].conds
        /\ cs[p].conds[ConditionTypeDegraded].reason = "DerivedSecretsFailed"

\* ---- Terminal step ----

\* Rows of the state table, as (status, reason) per condition type
TableReady ==
    [t \in CondTypes |->
        CASE t = ConditionTypeReady -> [status |-> "True", reason |-> "AllResourcesReady"]
          [] t = ConditionTypeProgressing -> [status |-> "False", reason |-> "Complete"]
          [] t = ConditionTypeDegraded -> [status |-> "False", reason |-> "Healthy"]]

TableProgressing ==
    [t \in CondTypes |->
        CASE t = ConditionTypeReady -> [status |-> "False", reason |-> "WaitingForResources"]
          [] t = ConditionTypeProgressing -> [status |-> "True", reason |-> "ResourcesPending"]
          [] t = ConditionTypeDegraded -> [status |-> "False", reason |-> "Healthy"]]

\* (status, reason) of the conditions the attempt set, and of the stored ones
SetRow == [t \in DOMAIN last.set |-> [status |-> last.set[t].status, reason |-> last.set[t].reason]]
StoredRow(p) ==
    [t \in DOMAIN cs[p].conds |->
        [status |-> cs[p].conds[t].status, reason |-> cs[p].conds[t].reason]]

NotReadyCertificates(p) ==
    LET names == AllCertificateNames(cs[p])
    IN {i \in 1..Len(names) :
           ~(Key(p.ns, names[i]) \in DOMAIN certs /\ certs[Key(p.ns, names[i])].ready = "True")}

\* The message that names the first resource that is not ready: Certificates
\* in the order of AllCertificateNames, then the Issuer
FirstNotReadyMessage(p) ==
    LET names == AllCertificateNames(cs[p])
        bad == NotReadyCertificates(p)
        first == CHOOSE i \in bad : \A j \in bad : i <= j
    IN IF bad # {} THEN "Certificate " \o names[first] \o " is not ready"
       ELSE "Issuer " \o CAName(p) \o " is not ready"

DegradedReasons ==
    {"CACertificatesFailed", "ClientCertificatesFailed", "DerivedSecretsFailed",
     "ArgoCDCleanupFailed", "CheckFailed", "Error"}

\* The Terminal step has stored a status for p: only steps 6 and 7 set Ready
TerminalStored(p) == cs[p].phase # "absent" /\ ConditionTypeReady \in DOMAIN cs[p].conds

\* C18 as stated: once an attempt has reached the Terminal step, the stored
\* status has the three conditions Ready, Progressing and Degraded, Ready=True
\* never stands next to Degraded=True or Progressing=True, and the (status,
\* reason) triple is a row of the state table: the Ready row, the Progressing
\* row, or Degraded=True with one of its documented reasons.
C18ConditionsConsistent ==
    \A p \in Parents :
        TerminalStored(p) =>
            /\ DOMAIN cs[p].conds = CondTypes
            /\ ~( /\ cs[p].conds[ConditionTypeReady].status = "True"
                  /\ \/ cs[p].conds[ConditionTypeDegraded].status = "True"
                     \/ cs[p].conds[ConditionTypeProgressing].status = "True" )
            /\ \/ StoredRow(p) = TableReady
               \/ StoredRow(p) = TableProgressing
               \/ /\ cs[p].conds[ConditionTypeDegraded].status = "True"
                  /\ cs[p].conds[ConditionTypeDegraded].reason \in DegradedReasons

\* ---- Phase failures ----

\* The store calls of each phase, as the failures the attempt can meet
PhaseAFaults(p) == {"cert:" \o n : n \in {CAName(p), ETCDName(p), ProxyName(p), CAOIDCName(p)}}
PhaseBFaults(p) == {"issuer", "cert:" \o SuperAdminName(p)}
PhaseCFaults == {"kubeconfigSecret", "getNamespace", "argocdSecret"}
CleanupFaults == {"deleteGet", "deleteDelete"}

\* The attempt set Degraded=True with this reason and no other condition,
\* patched the status once (a patch that goes through stores the condition),
\* and returned an error with no re-invocation request
PhaseFailure(p, exit, reason) ==
    /\ last.exit = exit
    /\ SetRow = [t \in {ConditionTypeDegraded} |-> [status |-> "True", reason |-> reason]]
    /\ last.statusCalls = 1
    /\ last.patched =>
          /\ cs[p].conds[ConditionTypeDegraded].status = "True"
          /\ cs[p].conds[ConditionTypeDegraded].reason = reason
    /\ last.err
    /\ last.requeue = "none"

\* C19: in a non-deleting attempt past the finalizer step, a failed write of
\* the CA or of an auxiliary Certificate sets Degraded=True/CACertificatesFailed;
\* a failed write of the Issuer or of the super-admin Certificate sets
\* Degraded=True/ClientCertificatesFailed; a failed write of a derived secret,
\* a failed namespace lookup or a missing namespace sets
\* Degraded=True/DerivedSecretsFailed; a failed delete of the Registration
\* Secret in the drift cleanup sets Degraded=True/ArgoCDCleanupFailed; each is
\* returned as an error with no re-invocation request, and each of the four
\* reasons is set by no other failure.
C19PhaseFailureReasons ==
    \A p \in Parents :
        Attempted(p) /\ ~last.deleting /\ last.hadFinalizer /\ ObservedParent =>
            /\ (last.fault \in PhaseAFaults(p)) <=> PhaseFailure(p, "phaseAErr", "CACertificatesFailed")
            /\ (last.fault \in PhaseBFaults(p)) <=> PhaseFailure(p, "phaseBErr", "ClientCertificatesFailed")
            /\ (last.fault \in PhaseCFaults \/ (ReachedRegistrationStep(p) /\ ~nsArgo))
                  <=> PhaseFailure(p, "phaseCErr", "DerivedSecretsFailed")
            /\ (last.fault \in CleanupFaults) <=> PhaseFailure(p, "cleanupErr", "ArgoCDCleanupFailed")
            /\ \A t \in DOMAIN last.set :
                  last.set[t].reason \in {"CACertificatesFailed", "ClientCertificatesFailed",
                                          "DerivedSecretsFailed", "ArgoCDCleanupFailed"}
                  => last.exit \in {"phaseAErr", "phaseBErr", "phaseCErr", "cleanupErr"}

\* The write of an auxiliary Certificate failed after the CA Certificate was
\* written, and the attempt stored Degraded=True/CACertificatesFailed
C19AuxiliaryCertificateFailed ==
    \E p \in Parents :
        /\ Attempted(p)
        /\ last.fault = "cert:" \o ProxyName(p)
        /\ last.exit = "phaseAErr"
        /\ HasCertificate(p, CAName(p))
        /\ HasCertificate(p, ETCDName(p))
        /\ ~HasCertificate(p, ProxyName(p))
        /\ cs[p].conds[ConditionTypeDegraded].reason = "CACertificatesFailed"

\* ---- Returned errors ----

\* C20 as stated: every error that a non-deleting attempt returns after the
\* finalizer step comes with a Degraded=True condition set in that attempt.
C20EveryErrorSetsDegraded ==
    \A p \in Parents :
        Attempted(p) /\ ObservedParent /\ ~last.deleting /\ last.hadFinalizer /\ last.err =>
            SetTo(ConditionTypeDegraded, "True")

\* ---- setCondition ----

\* Arguments setCondition is tried with in a state: what the parent stores for
\* the type, and three of the triples Reconcile passes
ConditionArguments(p, t) ==
    {[status |-> "True", reason |-> "AllResourcesReady",
      message |-> "All certificate resources created and ready"],
     [status |-> "False", reason |-> "Healthy", message |-> "No errors"],
     [status |-> "False", reason |-> "Healthy", message |-> ""]}
    \cup (IF t \in DOMAIN cs[p].conds
          THEN {[status |-> cs[p].conds[t].status, reason |-> cs[p].conds[t].reason,
                 message |-> cs[p].conds[t].message]}
          ELSE {})

\* The stored condition of type t equals the arguments at the parent's generation
ConditionMatches(p, t, x) ==
    /\ t \in DOMAIN cs[p].conds
    /\ cs[p].conds[t] = [status |-> x.status, reason |-> x.reason, message |-> x.message,
                         observedGeneration |-> cs[p].generation]

\* C21: setCondition returns false and leaves the conditions as they are
\* exactly when a condition of the type is there with the same status, reason
\* and message and observedGeneration equal to the parent's generation; in
\* every other case it returns true and the condition of the type afterwards
\* carries the given status, reason, message and the parent's generation, the
\* conditions of the other types untouched.
C21SetConditionContract ==
    \A p \in Parents : \A t \in CondTypes : \A x \in ConditionArguments(p, t) :
        LET a == StartAttempt(p, "none", FALSE)
            r == setCondition(a, t, x.status, x.reason, x.message)
        IN /\ r.changed <=> ~ConditionMatches(p, t, x)
           /\ ~r.changed => r.c.conds = cs[p].conds
           /\ r.changed =>
                 /\ DOMAIN r.c.conds = DOMAIN cs[p].conds \cup {t}
                 /\ r.c.conds[t] = [status |-> x.status, reason |-> x.reason,
                                    message |-> x.message,
                                    observedGeneration |-> cs[p].generation]
                 /\ \A u \in DOMAIN cs[p].conds \ {t} : r.c.conds[u] = cs[p].conds[u]
           /\ r.setConds = {t}
           /\ r.stored = cs[p]

\* An attempt called setCondition for the three types on a parent that stored
\* the same three conditions at its generation: every call returned false
C21SetConditionReturnedFalse ==
    \E p \in Parents :
        /\ Attempted(p)
        /\ last.exit = "complete"
        /\ DOMAIN last.set = CondTypes
        /\ ~last.changed
        /\ \A t \in CondTypes :
              ConditionMatches(p, t, [status |-> last.set[t].status, reason |-> last.set[t].reason,
                                      message |-> last.set[t].message])

\* ---- Observed generation ----

\* The parent stores the three conditions with the status, reason and message
\* the attempt sets, at an older generation
SameTextOlderGeneration(p) ==
    /\ DOMAIN last'.set = CondTypes
    /\ \A t \in CondTypes :
          /\ t \in DOMAIN cs[p].conds
          /\ cs[p].conds[t].status = last'.set[t].status
          /\ cs[p].conds[t].reason = last'.set[t].reason
          /\ cs[p].conds[t].message = last'.set[t].message
          /\ cs[p].conds[t].observedGeneration < cs[p].generation

\* C22: every condition an attempt writes carries observedGeneration equal to
\* the generation of the parent the attempt read; after an attempt whose
\* Terminal step stored the status, the three conditions carry that
\* generation; and when the parent stores the three conditions with the very
\* status, reason and message of the Terminal step at an older generation,
\* the Terminal step rewrites all three.
C22ObservedGeneration ==
    [][\A p \in Parents :
          (last'.p = {p} /\ last'.exit # "none" /\ cs'[p].phase # "absent") =>
              /\ cs'[p].generation = cs[p].generation
              /\ last'.patched =>
                    \A t \in DOMAIN last'.set :
                        cs'[p].conds[t].observedGeneration = cs[p].generation
              /\ last'.exit \in {"waiting", "complete"} =>
                    \A t \in CondTypes :
                        /\ t \in DOMAIN cs'[p].conds
                        /\ cs'[p].conds[t].observedGeneration = cs[p].generation
              /\ SameTextOlderGeneration(p) =>
                    /\ last'.changed
                    /\ last'.statusCalls = 1
                    /\ last'.patched =>
                          \A t \in CondTypes :
                              /\ cs'[p].conds[t] # cs[p].conds[t]
                              /\ cs'[p].conds[t].observedGeneration = cs[p].generation
      ]_vars

\* The Terminal step found everything ready on a parent past its first
\* generation and had to write: the stored conditions are at the new generation
C22RewrittenAtNewGeneration ==
    \E p \in Parents :
        /\ Attempted(p)
        /\ last.exit = "complete"
        /\ last.changed
        /\ ~needsClientCerts(cs[p])
        /\ cs[p].generation = 2
        /\ \A t \in CondTypes : cs[p].conds[t].observedGeneration = 2

\* ---- Concurrent status writers ----

\* C23 as stated: a status change another writer made between the attempt's
\* snapshot and its status write, to a part of the status the attempt did not
\* change, is still there after the attempt: the other writer's condition, of
\* a type the controller never sets, is stored after every such attempt.
C23OtherWritersChangeKept ==
    \A p \in Parents :
        (Attempted(p) /\ last.fault = "otherWriter" /\ cs[p].phase # "absent") =>
            /\ ForeignConditionType \notin DOMAIN last.set
            /\ ForeignConditionType \in DOMAIN cs[p].conds

\* ---- isSecretReady ----

\* The attempt made the CA Secret lookup / the super-admin Secret lookup
LookedUpCASecret ==
    /\ ObservedParent
    /\ ~last.deleting
    /\ last.hadFinalizer
    /\ last.exit # "phaseAErr"

LookedUpSuperAdminSecret(p) ==
    /\ LookedUpCASecret
    /\ last.exit \notin {"gateAErr", "gateAWait", "phaseBErr"}
    /\ needsClientCerts(cs[p])

\* C24: isSecretReady is true exactly of a stored Secret whose data has ca.crt,
\* tls.crt and tls.key; at both gates a Secret that is missing or lacks a key
\* gives not-ready with no error (the attempt waits), a failed lookup gives an
\* error (the attempt returns it), and a Secret with the three keys lets the
\* attempt pass.
C24SecretReadyIffThreeKeys ==
    /\ \A k \in SecretKeys \cup DOMAIN secrets : isSecretReady(secrets, k) <=> HoldsBundle(k)
    /\ \A p \in Parents :
          Attempted(p) =>
              /\ LookedUpCASecret =>
                    /\ (last.exit = "gateAErr") <=> (last.fault = "getCASecret")
                    /\ last.exit = "gateAErr" => last.err
                    /\ last.fault # "getCASecret" =>
                          ((last.exit = "gateAWait") <=> ~HoldsBundle(CASecretKey(p)))
                    /\ last.exit = "gateAWait" => ~last.err
              /\ LookedUpSuperAdminSecret(p) =>
                    /\ (last.exit = "gateBErr") <=> (last.fault = "getSASecret")
                    /\ last.exit = "gateBErr" => last.err
                    /\ last.fault # "getSASecret" =>
                          ((last.exit = "gateBWait") <=> ~HoldsBundle(SuperAdminSecretKey(p)))
                    /\ last.exit = "gateBWait" => ~last.err

\* An attempt passed Gate A on a CA Secret with the three keys and waited at
\* Gate B for a super-admin Secret that is not there
C24MissingSecretIsNoError ==
    \E p \in Parents :
        /\ Attempted(p)
        /\ HoldsBundle(CASecretKey(p))
        /\ ~HasSecret(SuperAdminSecretKey(p))
        /\ last.exit = "gateBWait"
        /\ ~last.err

\* ---- isCertificateReady, isIssuerReady ----

ReadinessFaults(p) == {"ready:" \o n : n \in {AllCertificateNames(cs[p])[i] : i \in 1..Len(AllCertificateNames(cs[p]))}}
                      \cup {"readyIssuer"}

IssuerNotReady(p) ==
    /\ needsClientCerts(cs[p])
    /\ ~(IssuerKey(p) \in DOMAIN issuers /\ issuers[IssuerKey(p)].ready = "True")

\* C25: isCertificateReady and isIssuerReady are true exactly of a stored
\* resource whose Ready condition has status True; a resource that is missing,
\* has no Ready condition ("None") or has Ready False or Unknown is not ready
\* and no error: the readiness check that meets one reports not-ready, names
\* it and returns no lookup error; a lookup that fails is an error, the
\* attempt returns it and never reports it as not-ready.
C25ReadyOnlyOnTrue ==
    /\ \A k \in CertKeys \cup DOMAIN certs :
          isCertificateReady(certs, k) <=> (k \in DOMAIN certs /\ certs[k].ready = "True")
    /\ \A k \in IssuerKeys \cup DOMAIN issuers :
          isIssuerReady(issuers, k) <=> (k \in DOMAIN issuers /\ issuers[k].ready = "True")
    /\ \A p \in Parents :
          (Attempted(p) /\ last.found # "unchecked") =>
              /\ (last.found = "error") <=> (last.fault \in ReadinessFaults(p))
              /\ last.found = "error" => last.exit = "checkErr" /\ last.err
              /\ last.fault \notin ReadinessFaults(p) =>
                    /\ (last.found = "notReady")
                          <=> (NotReadyCertificates(p) # {} \/ IssuerNotReady(p))
                    /\ (last.found = "allReady")
                          <=> (NotReadyCertificates(p) = {} /\ ~IssuerNotReady(p))
              /\ last.found = "notReady" =>
                    /\ last.set[ConditionTypeReady].message = FirstNotReadyMessage(p)
                    /\ last.err => last.patchFailed

\* The readiness check waits on a Certificate whose Ready condition is Unknown
C25UnknownIsNotReady ==
    \E p \in Parents :
        /\ Attempted(p)
        /\ last.exit = "waiting"
        /\ HasCertificate(p, CAName(p))
        /\ certs[CACertificateKey(p)].ready = "Unknown"
        /\ ~last.err

\* ---- Results ----

\* C26: every attempt returns one of (no error, no re-invocation), (no error,
\* immediate re-invocation), (no error, re-invocation after 5 seconds),
\* (error, no re-invocation); immediate re-invocation comes only from the
\* attempt that attached the finalizer, and the 5-second re-invocation only
\* from an attempt that found the CA Secret or the super-admin Secret without
\* its three keys, or whose readiness check found a resource not ready.
C26ResultShapes ==
    \A p \in Parents :
        Attempted(p) =>
            /\ last.requeue \in {"none", "immediate", "after5s"}
            /\ last.err => last.requeue = "none"
            /\ last.requeue = "immediate" =>
                  /\ ~last.hadFinalizer
                  /\ ~last.deleting
                  /\ cs[p].finalizer
                  /\ last.ops = {Op("update", "CertificateSet", ParentKey(p))}
            /\ last.requeue = "after5s" =>
                  /\ last.hadFinalizer
                  /\ ~last.deleting
                  /\ \/ ~HoldsBundle(CASecretKey(p))
                     \/ needsClientCerts(cs[p]) /\ ~HoldsBundle(SuperAdminSecretKey(p))
                     \/ /\ last.found = "notReady"
                        /\ NotReadyCertificates(p) # {} \/ IssuerNotReady(p)

\* The 5-second re-invocation of a readiness check that found every
\* Certificate ready and the Issuer not
C26RequeueOnIssuer ==
    \E p \in Parents :
        /\ Attempted(p)
        /\ last.requeue = "after5s"
        /\ ~last.err
        /\ last.found = "notReady"
        /\ NotReadyCertificates(p) = {}
        /\ IssuerNotReady(p)

\* ---- Owner references ----

\* C27: every Certificate, the Issuer and the kubeconfig Secret an attempt
\* creates carry the controller owner reference to the parent in the store,
\* and the Registration Secret it creates carries no owner reference.
C27OwnerAtCreation ==
    \A p \in Parents :
        Attempted(p) =>
            \A o \in last.ops :
                o.verb = "create" =>
                    /\ o.kind = "Certificate" =>
                          o.key \in DOMAIN certs /\ certs[o.key].owner = {p}
                    /\ o.kind = "Issuer" =>
                          o.key \in DOMAIN issuers /\ issuers[o.key].owner = {p}
                    /\ o.kind = "Secret" /\ o.key = KubeconfigKey(p) =>
                          o.key \in DOMAIN secrets /\ secrets[o.key].owner = {p}
                    /\ o.kind = "Secret" /\ o.key = RegistrationKey(p) =>
                          o.key \in DOMAIN secrets /\ secrets[o.key].owner = {}
                    /\ o.kind = "Secret" => o.key \in {KubeconfigKey(p), RegistrationKey(p)}

\* An attempt that created the kubeconfig Secret and the Registration Secret
C27CreatedBothSecrets ==
    \E p \in Parents :
        /\ Attempted(p)
        /\ Op("create", "Secret", KubeconfigKey(p)) \in last.ops
        /\ Op("create", "Secret", RegistrationKey(p)) \in last.ops

\* An attempt that created the Issuer and a Certificate
C27CreatedIssuerAndCertificate ==
    \E p \in Parents :
        /\ Attempted(p)
        /\ Op("create", "Issuer", IssuerKey(p)) \in last.ops
        /\ \E o \in last.ops : o.verb = "create" /\ o.kind = "Certificate"

\* ---- Creates that lose a race ----

\* C28: an attempt whose create failed with "already exists" (the object
\* appeared between the lookup and the create) returns no error and does not
\* set Degraded=True.
C28AlreadyExistsIsBenign ==
    \A p \in Parents :
        Attempted(p) /\ last.fault \in CreateRaces(p) =>
            /\ ~last.err
            /\ ~SetTo("Degraded", "True")

\* ---- Cleanup of the Registration Secret ----

\* The attempt ran deleteSecretIfExists on the Registration Secret of p, in
\* the deletion branch or in the drift-cleanup step
RanCleanup(p) ==
    /\ Attempted(p)
    /\ RegistrationKey(p) \in last.reg
    /\ last.deleting \/ (last.exit \in ExitsAtCleanup /\ ~cs[p].argocd)

\* C29: in both call sites, unless the lookup or the delete itself fails with
\* another error, the cleanup returns success and leaves the Registration
\* Secret absent, also when the secret was absent before or disappeared
\* between the lookup and the delete; run on an absent secret it deletes
\* nothing, and a cleanup that follows a cleanup leaves every store as the
\* first one left it.
C29CleanupIdempotent ==
    [][\A p \in Parents :
          (RanCleanup(p)' /\ last'.fault \notin CleanupFaults) =>
              /\ RegistrationKey(p) \notin DOMAIN secrets'
              /\ last'.exit \notin {"cleanupErr", "deleteSecretErr"}
              /\ RegistrationKey(p) \notin DOMAIN secrets =>
                    Op("delete", "Secret", RegistrationKey(p)) \notin last'.ops
              /\ (RanCleanup(p) /\ last.fault \notin CleanupFaults) =>
                    /\ secrets' = secrets
                    /\ certs' = certs
                    /\ issuers' = issuers
                    /\ targets' = targets]_vars

\* A deletion whose Registration Secret disappeared between the lookup and
\* the delete, and which went on to release the parent
C29DisappearedBeforeDelete ==
    \E p \in Parents :
        /\ RanCleanup(p)
        /\ last.deleting
        /\ last.fault = "deleteGone"
        /\ last.exit = "deleted"
        /\ RegistrationKey(p) \notin DOMAIN secrets

\* ---- Selector configuration ----

\* C30: a selector configuration whose label selector, when set, is a
\* key=value is accepted exactly when cluster-wide is set and neither
\* namespace nor label-selector is, or cluster-wide is not set and namespace
\* or label-selector is; with none set, and with cluster-wide and namespace or
\* label-selector or both, the manager fails at startup.
C30SelectorsAccepted ==
    manager.state # "starting" =>
        LET cw == manager.clusterWide
            ns == manager.namespace # ""
            ls == manager.labelSelector # <<>>
        IN /\ manager.state \in {"running", "failed"}
           /\ (manager.labelSelector \in {<<>>, <<"team", "=", "platform">>}) =>
                 (manager.state = "running" <=>
                    \/ cw /\ ~ns /\ ~ls
                    \/ ~cw /\ (ns \/ ls))
           /\ (~cw /\ ~ns /\ ~ls) => manager.state = "failed"
           /\ (cw /\ (ns \/ ls)) => manager.state = "failed"
           /\ manager.state = "failed" <=> manager.error # ""

\* The manager runs on --namespace and --label-selector together
C30NamespaceAndLabel ==
    /\ manager.state = "running"
    /\ ~manager.clusterWide
    /\ manager.namespace = "production"
    /\ manager.labelSelector = <<"team", "=", "platform">>

\* ---- Order of the readiness aggregation ----

\* C31: the readiness aggregation looks at <name>-ca, then (system, infra)
\* <name>-etcd, <name>-proxy, <name>-ca-oidc, then (kubeconfig or
\* argocdCluster) <name>-super-admin, then the Issuer <name>-ca, and stops at
\* the first that is not ready, whose kind and name are the message it
\* reports; a lookup error is met only after every resource before it was
\* found ready, sets Ready=False/CheckFailed and Degraded=True and is returned
\* as an error.
C31ReadinessOrder ==
    \A p \in Parents :
        Attempted(p) /\ last.found \in {"allReady", "notReady", "error"} =>
            LET c == cs[p]
                order == <<c.name \o "-ca">>
                         \o (IF c.env \in {"system", "infra"}
                             THEN <<c.name \o "-etcd", c.name \o "-proxy", c.name \o "-ca-oidc">>
                             ELSE <<>>)
                         \o (IF c.kubeconfig \/ c.argocd THEN <<c.name \o "-super-admin">> ELSE <<>>)
                Ready(i) == /\ Key(p.ns, order[i]) \in DOMAIN certs
                            /\ certs[Key(p.ns, order[i])].ready = "True"
                bad == {i \in 1..Len(order) : ~Ready(i)}
                issuerWanted == c.kubeconfig \/ c.argocd
                issuerReady == /\ Key(p.ns, c.name \o "-ca") \in DOMAIN issuers
                               /\ issuers[Key(p.ns, c.name \o "-ca")].ready = "True"
            IN /\ last.found = "allReady" => bad = {} /\ (issuerWanted => issuerReady)
               /\ last.found = "notReady" =>
                     /\ bad # {} \/ (issuerWanted /\ ~issuerReady)
                     /\ \A i \in bad :
                           (\A j \in bad : i <= j) =>
                               last.set[ConditionTypeReady].message =
                                   "Certificate " \o order[i] \o " is not ready"
                     /\ bad = {} =>
                           last.set[ConditionTypeReady].message =
                               "Issuer " \o c.name \o "-ca is not ready"
               /\ last.found = "error" =>
                     /\ \/ /\ last.fault = "readyIssuer"
                           /\ issuerWanted
                           /\ bad = {}
                        \/ \E i \in 1..Len(order) :
                              /\ last.fault = "ready:" \o order[i]
                              /\ \A j \in bad : i <= j
                     /\ last.exit = "checkErr"
                     /\ last.err
                     /\ last.requeue = "none"
                     /\ SetTo(ConditionTypeReady, "False")
                     /\ last.set[ConditionTypeReady].reason = "CheckFailed"
                     /\ SetTo(ConditionTypeDegraded, "True")
                     /\ last.statusCalls = 1

\* The lookup of the proxy Certificate failed after the CA and etcd
\* Certificates were found ready, while the ca-oidc Certificate was not ready
C31ErrorBeforeNotReady ==
    \E p \in Parents :
        /\ Attempted(p)
        /\ last.found = "error"
        /\ last.fault = "ready:" \o ProxyName(p)
        /\ Key(p.ns, CAOIDCName(p)) \in DOMAIN certs
        /\ certs[Key(p.ns, CAOIDCName(p))].ready # "True"

\* ---- createOrUpdateSecret on an existing Secret ----

\* C32: an attempt that finds a derived Secret in the store and leaves it
\* there keeps its labels, its owner references and every data key it does not
\* manage, and issues an update of it exactly when a managed key (value for the
\* kubeconfig Secret; config, name, server for the Registration Secret) was
\* missing or had another value than the one the attempt leaves.
C32OnlyManagedKeysChange ==
    [][\A p \in Parents :
          \A key \in {KubeconfigKey(p), RegistrationKey(p)} :
              (Attempted(p)' /\ key \in DOMAIN secrets /\ key \in DOMAIN secrets') =>
                  LET managed == IF key = KubeconfigKey(p) THEN {"value"}
                                 ELSE {"config", "name", "server"}
                      old == secrets[key]
                      new == secrets'[key]
                      differs == \E k \in managed :
                                    \/ (k \in DOMAIN old.data) # (k \in DOMAIN new.data)
                                    \/ /\ k \in DOMAIN old.data
                                       /\ k \in DOMAIN new.data
                                       /\ old.data[k] # new.data[k]
                  IN /\ new.labels = old.labels
                     /\ new.owner = old.owner
                     /\ \A k \in DOMAIN old.data \ managed :
                           k \in DOMAIN new.data /\ new.data[k] = old.data[k]
                     /\ DOMAIN new.data \subseteq DOMAIN old.data \cup managed
                     /\ Op("update", "Secret", key) \in last'.ops <=> differs
                     /\ Op("create", "Secret", key) \notin last'.ops]_vars

\* An attempt updated the kubeconfig Secret a user had edited: the user's data
\* key and label are there, the owner reference is still off
C32UpdatedEditedSecret ==
    \E p \in Parents :
        /\ Attempted(p)
        /\ Op("update", "Secret", KubeconfigKey(p)) \in last.ops
        /\ KubeconfigKey(p) \in DOMAIN secrets
        /\ "note" \in DOMAIN secrets[KubeconfigKey(p)].data
        /\ "user=yes" \in secrets[KubeconfigKey(p)].labels
        /\ secrets[KubeconfigKey(p)].owner = {}
        /\ "value" \in DOMAIN secrets[KubeconfigKey(p)].data

\* ---- Convergence ----

\* C33: in a cluster whose disturbances and spec edits come to an end, where
\* namespace beget-argocd exists, cert-manager issues every Secret and sets
\* every Ready condition to True, and every attempt that is due runs, a parent
\* that is never deleted eventually has the status Ready=True/AllResourcesReady,
\* Progressing=False/Complete, Degraded=False/Healthy and keeps it.
C33EventuallyReady ==
    \A p \in LiveParents :
        ([](cs[p].phase = "live")) => <>[](StoredRow(p) = TableReady)

\* The parent converged after a disturbance and an edit of its spec
C33ConvergedAfterDisturbance ==
    /\ Attempted(P1)
    /\ last.exit = "complete"
    /\ StoredRow(P1) = TableReady
    /\ spare = 0
    /\ cs[P1].generation = MaxGeneration

\* C34: once the parent has a deletion timestamp, in a cluster whose
\* disturbances come to an end and where every attempt that is due runs (after
\* every returned error too), eventually the parent is gone, its cleanup
\* finalizer removed, and the Registration Secret does not exist; while the
\* parent waits for deletion the finalizer stays on it, and the parent is never
\* gone with the Registration Secret left behind.
C34DeletionCompletes ==
    \A p \in LiveParents :
        /\ [](cs[p].phase = "deleting" => cs[p].finalizer)
        /\ [](cs[p].phase = "absent" => ~HasSecret(RegistrationKey(p)))
        /\ (cs[p].phase = "deleting") ~>
              (cs[p].phase = "absent" /\ ~HasSecret(RegistrationKey(p)))

\* The deletion branch deleted the Registration Secret and removed the
\* finalizer, after a disturbance
C34DeletedAfterRetry ==
    /\ Attempted(P1)
    /\ last.deleting
    /\ last.exit = "deleted"
    /\ Op("delete", "Secret", RegistrationKey(P1)) \in last.ops
    /\ cs[P1].phase = "absent"
    /\ spare = 0

\* C35: an attempt creates or updates the Registration Secret only when the
\* parent it read carried the cleanup finalizer and no deletion timestamp; hence
\* a parent that has not held the finalizer has no Registration Secret.
C35RegistrationNeedsFinalizer ==
    \A p \in Parents :
        /\ Attempted(p) /\ (\E o \in last.ops : o.kind = "Secret" /\ o.key = RegistrationKey(p)
                                                  /\ o.verb \in {"create", "update"}) =>
              last.hadFinalizer /\ ~last.deleting
        /\ cs[p].phase = "live" /\ ~cs[p].finalizer => ~HasSecret(RegistrationKey(p))

\* An attempt on a parent with the finalizer and without a deletion timestamp
\* wrote the Registration Secret
C35WroteRegistration ==
    \E p \in Parents :
        /\ Attempted(p)
        /\ last.hadFinalizer
        /\ ~last.deleting
        /\ cs[p].finalizer
        /\ \E o \in last.ops : o.kind = "Secret" /\ o.key = RegistrationKey(p)
                               /\ o.verb \in {"create", "update"}
        /\ HasSecret(RegistrationKey(p))

\* C36: an attempt on a parent without a deletion timestamp never removes the
\* cleanup finalizer: a parent that carries it before the attempt carries it
\* after, whatever the attempt's outcome.
C36FinalizerStays ==
    [][\A p \in Parents :
          cs[p].phase = "live" /\ cs[p].finalizer /\ Attempted(p)' =>
              cs'[p].phase = "live" /\ cs'[p].finalizer]_vars

\* An attempt on a parent with the finalizer and no deletion timestamp failed,
\* and the finalizer is on the parent
C36FailedWithFinalizer ==
    \E p \in Parents :
        /\ Attempted(p)
        /\ last.hadFinalizer
        /\ ~last.deleting
        /\ last.err
        /\ cs[p].phase = "live"
        /\ cs[p].finalizer

\* C37: an attempt that exits on a failure of Phase A, Phase B, Phase C or the
\* drift cleanup sets no condition but Degraded, and leaves the stored Ready
\* and Progressing conditions as they were before the attempt: present or
\* absent alike, with the same status, reason, message and observedGeneration.
C37OnlyDegradedChanges ==
    [][\A p \in Parents :
          Attempted(p)' /\ last'.exit \in {"phaseAErr", "phaseBErr", "phaseCErr", "cleanupErr"} =>
              /\ DOMAIN last'.set = {ConditionTypeDegraded}
              /\ \A t \in {ConditionTypeReady, ConditionTypeProgressing} :
                    /\ t \in DOMAIN cs'[p].conds <=> t \in DOMAIN cs[p].conds
                    /\ t \in DOMAIN cs[p].conds => cs'[p].conds[t] = cs[p].conds[t]]_vars

\* A phase failed on a parent whose stored Ready was True at an older
\* generation: Degraded=True is stored at the new generation beside it
C37DegradedBesideReady ==
    \E p \in Parents :
        /\ Attempted(p)
        /\ last.exit \in {"phaseAErr", "phaseBErr", "phaseCErr", "cleanupErr"}
        /\ last.patched
        /\ ConditionTypeReady \in DOMAIN cs[p].conds
        /\ cs[p].conds[ConditionTypeReady].status = "True"
        /\ cs[p].conds[ConditionTypeReady].observedGeneration < cs[p].generation
        /\ cs[p].conds[ConditionTypeDegraded].status = "True"
        /\ cs[p].conds[ConditionTypeDegraded].observedGeneration = cs[p].generation

\* C38: after an attempt that returns a 5-second wait (at Gate A, at Gate B or
\* at the readiness aggregation) the stored conditions claim neither
\* convergence nor failure: Ready is not True and Degraded is not True, whatever
\* an earlier attempt stored.
C38WaitClaimsNothing ==
    \A p \in Parents :
        Attempted(p) /\ last.requeue = "after5s" /\ ~last.err =>
            \A t \in {ConditionTypeReady, ConditionTypeDegraded} :
                t \in DOMAIN cs[p].conds => cs[p].conds[t].status # "True"

\* C39: after every attempt that completes Phase C without error, the managed
\* keys of each wanted derived secret are the rendering of the super-admin
\* bundle and of the endpoint read in that attempt: value of <name>-kubeconfig,
\* and config, name and server of <name>-argocd-cluster; a rotated ca.crt,
\* tls.crt or tls.key reaches both secrets in the next such attempt.
C39DerivedSecretsFollowBundle ==
    \A p \in Parents :
        Attempted(p) /\ last.exit \in ExitsAtCleanup /\ (cs[p].kubeconfig \/ cs[p].argocd) =>
            /\ last.bundle # {}
            /\ \A b \in last.bundle :
                  /\ cs[p].kubeconfig =>
                        /\ HasSecret(KubeconfigKey(p))
                        /\ "value" \in DOMAIN secrets[KubeconfigKey(p)].data
                        /\ secrets[KubeconfigKey(p)].data["value"] =
                              [template |-> "kubeconfig", ClusterName |-> p.name,
                               Server |-> cs[p].endpoint, CACert |-> b.CACert,
                               TLSCert |-> b.TLSCert, TLSKey |-> b.TLSKey]
                  /\ cs[p].argocd =>
                        /\ HasSecret(RegistrationKey(p))
                        /\ {"config", "name", "server"} \subseteq DOMAIN secrets[RegistrationKey(p)].data
                        /\ secrets[RegistrationKey(p)].data["config"] =
                              [template |-> "argocd", CACert |-> b.CACert,
                               TLSCert |-> b.TLSCert, TLSKey |-> b.TLSKey]
                        /\ secrets[RegistrationKey(p)].data["name"] = [text |-> p.name]
                        /\ secrets[RegistrationKey(p)].data["server"] = [text |-> cs[p].endpoint]

\* cert-manager rotated the super-admin bundle and the attempt updated both
\* derived secrets from the second bundle
C39RotationPropagated ==
    \E p \in Parents :
        /\ Attempted(p)
        /\ last.exit \in ExitsAtCleanup
        /\ Op("update", "Secret", KubeconfigKey(p)) \in last.ops
        /\ Op("update", "Secret", RegistrationKey(p)) \in last.ops
        /\ \E b \in last.bundle : b.TLSCert = [b64 |-> <<"tls.crt", MaxBundle>>]

\* C40: when an attempt exits on a failure of Phase A, Phase B, Phase C, the
\* drift cleanup or a readiness lookup and the status patch that records
\* Degraded=True fails as well, the attempt returns the error of the phase (its
\* exit is that of the phase, not one of the status patch), with no
\* re-invocation request of its own, and so it is due again.
C40PhaseErrorSurvivesPatchFailure ==
    \A p \in Parents :
        Attempted(p) /\ ~last.deleting /\ last.patchFailed =>
            /\ last.fault \in PhaseAFaults(p) => last.exit = "phaseAErr"
            /\ last.fault \in PhaseBFaults(p) => last.exit = "phaseBErr"
            /\ last.fault \in PhaseCFaults => last.exit = "phaseCErr"
            /\ last.fault \in CleanupFaults => last.exit = "cleanupErr"
            /\ last.fault \in ReadinessFaults(p) => last.exit = "checkErr"
            /\ last.exit \in {"phaseAErr", "phaseBErr", "phaseCErr", "cleanupErr", "checkErr"} =>
                  /\ last.err
                  /\ last.requeue = "none"
                  /\ ~last.patched
                  /\ Due(p)

\* Phase C failed and the patch of Degraded=True failed too: the error of the
\* phase is what the attempt returned
C40PatchFailedAfterPhaseC ==
    \E p \in Parents :
        /\ Attempted(p)
        /\ last.patchFailed
        /\ last.fault \in PhaseCFaults
        /\ last.exit = "phaseCErr"
        /\ last.err
        /\ ConditionTypeDegraded \in DOMAIN cs[p].conds =>
              cs[p].conds[ConditionTypeDegraded].reason # "DerivedSecretsFailed"

====
